---- MODULE Spec2Model ----
(***************************************************************************)
(* Screen-space contact-shadow resolver of the ScreenSpaceShadows shader:  *)
(* the compute variant Main_CS and the pixel-shader variant Main, and the  *)
(* host function RenderScreenSpaceShadows that adds the compute pass.      *)
(*                                                                         *)
(* Floating-point values are fixed-point integers; every division rounds   *)
(* towards minus infinity, which stands for the rounding of a float        *)
(* operation.  Four scales are used:                                       *)
(*   One      UV, NDC and direction components (1.0 = One)                 *)
(*   WOne     world lengths and clip-space coordinates (1 unit = WOne)     *)
(*   ZOne     device depth (1.0 = ZOne)                                    *)
(*   TimeOne  ray fractions (1.0 = TimeOne = 2 * NumSteps * DitherOne)     *)
(***************************************************************************)
EXTENDS Integers, Sequences, FiniteSets, TLC

\* ---------------------------------------------------------------- scales
One == 4096
WOne == 64
ZOne == 1000000
NoiseOne == 1000
\* resolution of the dither value: Dither is a multiple of 1/DitherOne
DitherOne == 16
\* number of per-frame noise seeds explored (View.StateFrameIndexMod8 < 8)
MaxFrameIndex == 2

\* ---------------------------------------------------------------- arithmetic
Abs(x) == IF x < 0 THEN -x ELSE x

Sign(x) == IF x < 0 THEN -1 ELSE 1

\* a value no finite operation of the model produces: the result of x / 0
Inf == 1000000000

\* float division a / b, rounded down; x / 0 is +-infinity
FloorDiv(a, b) ==
    IF b = 0 THEN Sign(a) * Inf
    ELSE IF b > 0 THEN a \div b
    ELSE (-a) \div (-b)

Dot3(a, b) == a[1] * b[1] + a[2] * b[2] + a[3] * b[3]

\* mul(v, M): row vector times 4x4 matrix; M is a tuple of four rows
Mul(v, M) ==
    [c \in 1..4 |-> v[1] * M[1][c] + v[2] * M[2][c] + v[3] * M[3][c] + v[4] * M[4][c]]

Clamp(x, lo, hi) == IF x < lo THEN lo ELSE IF x > hi THEN hi ELSE x

\* ---------------------------------------------------------------- shader constants
\* Main_CS: int NumSteps = 64
NumSteps == 64
\* Main_CS: float CompareTorelanceScale = 2.0
CompareTorelanceScale == 2
\* Main_CS: float contactShadowLength = 1.0
contactShadowLength == 1
\* Main_CS: 1e-5 of the self-occlusion test, in ZOne units
SelfOcclusionEps == 10
\* Main_CS: the pixel whose sample trail is recorded in testFactors
DebugPixelX == 233
DebugPixelY == 250
\* Main: int NumSteps = 100
PSNumSteps == 100
\* Main: float stepSize = 10
stepSize == 10
\* Main / Main_CS: float Thickness = 0.02, in 1/100
ThicknessPercent == 2
\* Main: depthDiff > 0.1 && depthDiff < 50, in 1/10 world units and world units
PSMinDiffTenths == 1
PSMaxDiff == 50

\* ray fractions: 1.0 = TimeOne, one step = StepTime
TimeOne == 2 * NumSteps * DitherOne
\* Main_CS: float step = 1.0 / NumSteps
StepTime == TimeOne \div NumSteps

\* ---------------------------------------------------------------- the view descriptor
\* View.BufferSizeAndInvSize.xy, View.ViewSizeAndInvSize.xy (square buffer, full-buffer view)
BufferSize == 512
\* View.ViewRectMin.xy
ViewRectMin == <<0, 0>>
\* View.ScreenPositionScaleBias = (0.5, -0.5, 0.5, 0.5)
ScreenPositionScaleBias == <<One \div 2, -(One \div 2), One \div 2, One \div 2>>
\* near clip plane of the projection (world units)
NearClip == 10
\* View.ScreenToTranslatedWorld: camera at the origin looking along +Z, 90 degree field of view
ScreenToTranslatedWorld ==
    << <<1, 0, 0, 0>>,
       <<0, 1, 0, 0>>,
       <<0, 0, 1, 0>>,
       <<0, 0, 0, 1>> >>
\* View.TranslatedWorldToClip: reversed-Z infinite-far perspective, clip = (x, y, near * w, z)
TranslatedWorldToClip ==
    << <<1, 0, 0, 0>>,
       <<0, 1, 0, 0>>,
       <<0, 0, 0, 1>>,
       <<0, 0, NearClip, 0>> >>
\* View.ViewToClip: the projection alone (view space = translated world space here)
ViewToClip == TranslatedWorldToClip
\* GetTanHalfFieldOfView(): (1 / ViewToClip[0][0], 1 / ViewToClip[1][1])
GetTanHalfFieldOfView == <<FloorDiv(1, ViewToClip[1][1]), FloorDiv(1, ViewToClip[2][2])>>

\* ConvertToDeviceZ(SceneDepth), perspective branch: world depth (WOne) to device depth (ZOne)
ConvertToDeviceZ(SceneDepth) == FloorDiv(NearClip * WOne * ZOne, SceneDepth)

\* ConvertFromDeviceZ(DeviceZ), perspective branch: device depth (ZOne) to world depth (WOne)
ConvertFromDeviceZ(DeviceZ) == FloorDiv(NearClip * WOne * ZOne, DeviceZ)

\* frac() of a value in NoiseOne units
Frac(x) == x % NoiseOne

\* InterleavedGradientNoise(uv, FrameId): uv += FrameId * (47, 17) * 0.695;
\* frac(52.9829189 * frac(dot(uv, (0.06711056, 0.00583715)))), truncated to DitherOne
InterleavedGradientNoise(px, py, FrameId) ==
    LET ux == (2 * px + 1) * (NoiseOne \div 2) + FrameId * 32665
        uy == (2 * py + 1) * (NoiseOne \div 2) + FrameId * 11815
        d  == Frac((ux * 67 + uy * 6) \div NoiseOne)
        n  == Frac((52983 * d) \div NoiseOne)
    IN  (n * DitherOne) \div NoiseOne

\* ---------------------------------------------------------------- the G-buffer
\* A scene is a background plane at depth back with an occluder band over the
\* texel columns lo..hi-1 at depth occ; the whole buffer has one normal.
DepthAt(sc, tx, ty) == IF sc.lo <= tx /\ tx < sc.hi THEN sc.occ ELSE sc.back

\* texel addressed by a UV (One units); the sampler clamps to the edge
TexelOf(u) == Clamp(FloorDiv(u * BufferSize, One), 0, BufferSize - 1)

\* GetGBufferDataFromSceneTextures(UV): .WorldNormal and .Depth
GetGBufferDataFromSceneTextures(sc, uv) ==
    [WorldNormal |-> sc.normal,
     Depth       |-> DepthAt(sc, TexelOf(uv[1]), TexelOf(uv[2]))]

\* a float literal stored in a float2 surface (surfaces hold WOne fixed-point values)
F(x) == x * WOne

\* ---------------------------------------------------------------- inputs of a frame
\* FLightSceneProxy: GetLightType(), GetDirection(), GetPosition() (xyz in One units)
LightProxy(type, dir, pos) == [LightType |-> type, Direction |-> dir, Position |-> pos]

\* the lights of the scene: three directional lights, a point light and a spot light
LightProxies ==
    { LightProxy("LightType_Directional", <<-2458, 0, 3277>>, <<0, 0, 0>>),
      LightProxy("LightType_Directional", <<2458, 0, 3277>>, <<0, 0, 0>>),
      LightProxy("LightType_Directional", <<0, -2458, -3277>>, <<0, 0, 0>>),
      LightProxy("LightType_Point", <<One, 0, 0>>, <<-2458, 0, 3277>>),
      LightProxy("LightType_Spot", <<0, -2458, -3277>>, <<2458, 0, 3277>>) }

\* mutant of bIsDirectional: a spot light is passed by its direction too
bIsDirectional_OrSpot(p) == p.LightType \in {"LightType_Directional", "LightType_Spot"}

\* part_001 line 1813: GetLightType() == LightType_Directional
bIsDirectional(p) == p.LightType = "LightType_Directional"

\* part_001 line 1815: bIsDirectional ? FVector4(LightDirection, 0) : FVector4(LightPosition, 1)
LightPositionOrDirectionOf(p) ==
    IF bIsDirectional(p) THEN <<p.Direction[1], p.Direction[2], p.Direction[3], 0>>
    ELSE <<p.Position[1], p.Position[2], p.Position[3], 1>>

\* LightPositionOrDirection.xyzw as the passes receive it
Lights == { LightPositionOrDirectionOf(p) : p \in LightProxies }

\* world normals of the G-buffer
TowardsCamera == <<0, 0, -One>>
Upwards == <<0, One, 0>>

\* Scene(back, occ, lo, hi, normal): depths in world units
Scene(back, occ, lo, hi, normal) ==
    [back |-> back * WOne, occ |-> occ * WOne, lo |-> lo, hi |-> hi, normal |-> normal]

\* the G-buffers explored: a wall with a nearer occluder at the right edge (two
\* occluder depths), a plane whose normal points up, a far plane, and an
\* upward-facing surface with a farther surface to its right, just behind the
\* end point of the rays that rise from it
Scenes ==
    { Scene(300, 148, 384, 512, TowardsCamera),
      Scene(300, 99, 384, 512, TowardsCamera),
      Scene(300, 300, 0, 0, Upwards),
      Scene(3000, 3000, 0, 0, TowardsCamera),
      Scene(300, 541, 240, 512, Upwards) }

\* the invocations that are followed: DispatchThreadId.xy / SvPosition.xy - 0.5
Pixels == { <<DebugPixelX, DebugPixelY>>, <<246, 249>> }

\* the sets of invocations followed together: each one alone, and both for the
\* first scene lit from the left in frame 0 (the sample trail of the one crosses the other)
Followed(sc, lt, fr) ==
    { {p} : p \in Pixels } \cup
    (IF sc = Scene(300, 148, 384, 512, TowardsCamera) /\ lt = <<-2458, 0, 3277, 0>> /\ fr = 0
     THEN {Pixels} ELSE {})

\* contents of a surface slot nothing has been stored to
Unwritten == <<-1, -1>>

\* ---------------------------------------------------------------- inputs of the host
\* number of views and of projected shadows of a light that are explored
MaxViews == 2
MaxShadows == 2

\* #define THREADGROUP_SIZEX 8 / FMath::DivideAndRoundUp(.., 8)
THREADGROUP_SIZE == 8

\* View.ViewRect of a view: (Width(), Height())
ViewRects == { <<0, 8>>, <<8, 0>>, <<8, 8>>, <<9, 17>> }

\* FProjectedShadowInfo: bRayTracedDistanceField, bAllocated
ProjectedShadow(df, alloc) == [bRayTracedDistanceField |-> df, bAllocated |-> alloc]

ProjectedShadows ==
    { ProjectedShadow(TRUE, TRUE), ProjectedShadow(FALSE, TRUE), ProjectedShadow(FALSE, FALSE) }

\* the arrays of at most n elements of S
ArraysUpTo(S, n) == UNION { [1..k -> S] : k \in 0..n }

\* mutant of DivideAndRoundUp: the quotient is rounded down
DivideAndRoundUp_Floor(Dividend, Divisor) == Dividend \div Divisor

\* FMath::DivideAndRoundUp(Dividend, Divisor)
DivideAndRoundUp(Dividend, Divisor) == (Dividend + Divisor - 1) \div Divisor

\* part_001 lines 1819-1822: (GroupSizeX, GroupSizeY) of a view rectangle
GroupSize(rect) ==
    << DivideAndRoundUp(rect[1], THREADGROUP_SIZE), DivideAndRoundUp(rect[2], THREADGROUP_SIZE) >>

\* mutant of IsDegenerate: only a zero width is detected
IsDegenerate_WidthOnly(g) == g[1] = 0

\* part_001 line 1825: if (GroupSizeX == 0 || GroupSizeY == 0)
IsDegenerate(g) == g[1] = 0 \/ g[2] = 0

\* part_001 lines 1772-1836: the pass FComputeShaderUtils::AddPass registers
ComputePass(ViewIndex, ShadowIndex, rect, lpd) ==
    [ViewIndex |-> ViewIndex, ShadowIndex |-> ShadowIndex,
     TextureSize |-> rect,
     LightPositionOrDirection |-> lpd,
     GroupCount |-> <<GroupSize(rect)[1], GroupSize(rect)[2], 1>>]

\* part_000 lines 100, 104: [numthreads(8, 8, 1)], the GroupThreadId.xy of a group's threads
GroupThreadIds == (0..(THREADGROUP_SIZE - 1)) \X (0..(THREADGROUP_SIZE - 1))

\* part_000 line 102: the GroupId.xy of the groups of a dispatch of GroupCount groups
GroupIds(GroupCount) == (0..(GroupCount[1] - 1)) \X (0..(GroupCount[2] - 1))

\* part_000 line 103: SV_DispatchThreadID = GroupId * numthreads + GroupThreadId
DispatchThreadIdOf(g, th) ==
    << g[1] * THREADGROUP_SIZE + th[1], g[2] * THREADGROUP_SIZE + th[2] >>

\* the Main_CS invocations GraphBuilder.Execute() starts for a pass: (GroupId, GroupThreadId)
Invocations(p) == GroupIds(p.GroupCount) \X GroupThreadIds

\* the DispatchThreadId.xy of the invocations of a pass
DispatchedIds(p) == { DispatchThreadIdOf(iv[1], iv[2]) : iv \in Invocations(p) }

\* locals of RenderScreenSpaceShadows
HostLocals(pc, df, normal, passes) ==
    [pc |-> pc, DistanceFieldShadows |-> df, NormalShadows |-> normal,
     ViewIndex |-> 0, ShadowIndex |-> 0, passes |-> passes, result |-> "none"]

\* ---------------------------------------------------------------- inputs of RenderShadowProjections
\* FadeAlphas are multiples of 1 / FadeOne; line 1566: 1.0f / 256.0f
FadeOne == 1024
MinFadeAlpha == FadeOne \div 256

\* FProjectedShadowInfo as RenderShadowProjections reads it; FadeAlphas is indexed by view
ShadowInfo(df, alloc, fade, onepass, whole, wsd) ==
    [bRayTracedDistanceField |-> df, bAllocated |-> alloc, FadeAlphas |-> fade,
     bOnePassPointLightShadow |-> onepass, bWholeSceneShadow |-> whole,
     bWholeSceneDirectional |-> wsd]

\* a cascade of a directional light, fully visible in view 0 and at the threshold in view 1
CascadeShadow == ShadowInfo(FALSE, TRUE, <<FadeOne, MinFadeAlpha>>, FALSE, TRUE, TRUE)
\* a ray-traced distance-field shadow
DistanceFieldShadow == ShadowInfo(TRUE, TRUE, <<FadeOne, FadeOne>>, FALSE, TRUE, TRUE)
\* a per-object shadow that got no shadow-map space
UnallocatedShadow == ShadowInfo(FALSE, FALSE, <<FadeOne, FadeOne>>, FALSE, FALSE, FALSE)
\* a one-pass point-light shadow, just above the threshold in view 0 and faded out in view 1
CubemapShadow == ShadowInfo(FALSE, TRUE, <<MinFadeAlpha + 1, 0>>, TRUE, TRUE, FALSE)

\* VisibleLightInfo.ShadowsToProject of the lights explored
ShadowLists ==
    { <<>>,
      <<CascadeShadow>>,
      <<DistanceFieldShadow>>,
      <<DistanceFieldShadow, CascadeShadow>>,
      <<CascadeShadow, CubemapShadow>>,
      <<UnallocatedShadow, DistanceFieldShadow, CubemapShadow>> }

\* FSceneRenderer::Views of the frames explored
ViewLists ==
    { << <<8, 8>> >>,
      << <<9, 17>>, <<8, 8>> >>,
      << <<8, 8>>, <<0, 8>> >> }

\* the pooled render targets
ShadowMask == "ScreenShadowMaskTexture"
ShadowMaskSubPixel == "ScreenShadowMaskSubPixelTexture"

\* a command of the RHI command list: the view and the shadow it is issued for
\* (-1 when it has none), the textures it reads and the textures it writes
Command(op, ViewIndex, ShadowIndex, reads, writes) ==
    [op |-> op, ViewIndex |-> ViewIndex, ShadowIndex |-> ShadowIndex,
     reads |-> reads, writes |-> writes]

\* mutant of ResultOfRenderShadowProjections: the result of the screen-space pass is handed on
ResultOfRenderShadowProjections_FromPass(ScreenSpaceResult) == ScreenSpaceResult

\* line 1944: return true
ResultOfRenderShadowProjections(ScreenSpaceResult) == "true"

\* mutant of RWShadowFactorsTexture: the pass stores into the registered shadow mask
RWShadowFactorsTexture_ShadowMask == ShadowMask

\* lines 1781-1787: PassParameters->RWShadowFactors, the UAV of the texture created at line 1781
RWShadowFactorsTexture == "ScreenSpaceShadowTexture"

\* lines 1799-1805: PassParameters->testFactors, the UAV of the texture created at line 1799
testFactorsTexture == "test"

\* lines 1808-1837: the dispatch GraphBuilder.Execute() issues for the pass of
\* view ViewIndex and shadow NormalShadows[ShadowIndex]
DispatchCommand(ViewIndex, ShadowIndex) ==
    Command("ScreenSpaceShadowing", ViewIndex, ShadowIndex,
            {"SceneTextures"}, {RWShadowFactorsTexture, testFactorsTexture})

\* locals of FDeferredShadingSceneRenderer::RenderShadowProjections (caller "Deferred") or of
\* one light of FMobileSceneRenderer::RenderModulatedShadowProjections (caller "Mobile"),
\* and of the call of FSceneRenderer::RenderShadowProjections they make
DeferredLocals(pc, caller, hair, subpixel) ==
    [pc |-> pc, caller |-> caller,
     HairDatas |-> hair, ScreenShadowMaskSubPixelTexture |-> subpixel,
     bMobileModulatedProjections |-> (caller = "Mobile"),
     bInsideRenderPass |-> (caller = "Mobile"),
     DistanceFieldShadows |-> <<>>, NormalShadows |-> <<>>,
     HairVisibilityViews |-> FALSE, RenderTarget |-> "none",
     ViewIndex |-> 0, ShadowIndex |-> 0,
     bInjectedTranslucentVolume |-> FALSE, result |-> "none"]

\* ------------------------------------------------ shadow projection shaders
\* bounds of a 32-bit int, written so that no literal leaves its range
MaxInt32 == 2147483647
MinInt32 == (-MaxInt32) - 1
Half32 == 1073741824

\* the iterations of a resolution loop that are counted; a loop that has not
\* ended after this many doublings is followed without counting further
MaxReduce == 33

\* r.ShadowQuality, r.LimitRenderingFeatures and the build configuration
QualitySettings ==
    { [ShadowQuality |-> q, LimitRenderingFeatures |-> 0, Build |-> "Development"] :
          q \in {-1, 0, 1, 2, 3, 5, 7} }
    \cup { [ShadowQuality |-> 5, LimitRenderingFeatures |-> 3, Build |-> b] :
          b \in {"Development", "Shipping"} }
    \cup { [ShadowQuality |-> 0, LimitRenderingFeatures |-> 0, Build |-> "Shipping"] }

\* uint32 GetShadowQuality()
GetShadowQuality(s) ==
    LET Ret == IF s.Build = "Development" /\ s.LimitRenderingFeatures > 2
               THEN 0 ELSE s.ShadowQuality
    IN  Clamp(Ret, 0, 5)

\* FMath::TruncToInt(512 * r.Shadow.PreShadowResolutionFactor), the factor in quarters
PreShadowFactorQuarters == {0, 4, 8, 8388609}

TargetResolution(bPreShadow, FactorQuarters) ==
    IF bPreShadow THEN (512 \div 4) * FactorQuarters ELSE 512

\* Res *= 2 on a 32-bit int without overflow
Fits32(Res) == Res >= -Half32 /\ Res < Half32

\* Res *= 2 where the build wraps on overflow
WrapDouble(Res) ==
    IF Fits32(Res) THEN 2 * Res
    ELSE IF Res >= Half32 THEN ((2 * (Res - Half32)) - Half32) - Half32
    ELSE ((2 * (Res + Half32)) + Half32) + Half32

\* the values of FProjectedShadowInfo::ResolutionX followed
Resolutions == {MinInt32, -1, 0, 1, 512, Half32}

\* the fields of FProjectedShadowInfo and the arguments that select the shaders
ProjectionCall(fn, transl, wsd, split, whole, pre, fade, transm, spot, mobile, hair, filter) ==
    [fn |-> fn, bTranslucentShadow |-> transl, IsWholeSceneDirectionalShadow |-> wsd,
     ShadowSplitIndex |-> split, bWholeSceneShadow |-> whole, bPreShadow |-> pre,
     HasFadePlane |-> fade, bTransmission |-> transm, IsSpot |-> spot,
     bMobileModulatedProjections |-> mobile, bSubPixelSupport |-> hair,
     FilterMethod |-> filter]

ProjectionCalls ==
    { ProjectionCall("RenderProjection", FALSE, FALSE, 0, FALSE, pre, FALSE, t, FALSE,
                     FALSE, FALSE, 0) : pre, t \in BOOLEAN }
    \cup { ProjectionCall("RenderProjection", FALSE, TRUE, 0, TRUE, FALSE, fp, t, FALSE,
                     FALSE, FALSE, 0) : fp, t \in BOOLEAN }
    \cup { ProjectionCall("RenderProjection", FALSE, TRUE, 1, TRUE, FALSE, FALSE, FALSE, FALSE,
                     FALSE, FALSE, 0) }
    \cup { ProjectionCall("RenderProjection", FALSE, TRUE, 0, TRUE, FALSE, fp, FALSE, FALSE,
                     FALSE, FALSE, 1) : fp \in BOOLEAN }
    \cup { ProjectionCall("RenderProjection", FALSE, FALSE, 0, FALSE, FALSE, FALSE, FALSE, TRUE,
                     FALSE, FALSE, f) : f \in {0, 1} }
    \cup { ProjectionCall("RenderProjection", FALSE, wsd, 0, wsd, FALSE, FALSE, FALSE, FALSE,
                     FALSE, TRUE, 0) : wsd \in BOOLEAN }
    \cup { ProjectionCall("RenderProjection", TRUE, FALSE, 0, FALSE, FALSE, FALSE, FALSE, FALSE,
                     FALSE, FALSE, 0),
           ProjectionCall("RenderProjection", FALSE, FALSE, 0, FALSE, FALSE, FALSE, FALSE, FALSE,
                     TRUE, FALSE, 0) }
    \cup { ProjectionCall("RenderOnePassPointLightProjection", FALSE, FALSE, 0, TRUE, FALSE,
                     FALSE, t, FALSE, FALSE, FALSE, 0) : t \in BOOLEAN }

\* the type of the light whose shadow a call projects
LightTypeOf(c) ==
    IF c.IsWholeSceneDirectionalShadow THEN "LightType_Directional"
    ELSE IF c.IsSpot THEN "LightType_Spot"
    ELSE "LightType_Point"

\* switch (Quality) of GetShadowProjectionShaders and of
\* RenderOnePassPointLightProjection: the shader of the case, or none at default
SwitchQuality(Quality, Template) ==
    IF Quality \in 1..5 THEN <<Template, Quality>> ELSE <<"nullptr">>

\* GetShadowProjectionShaders: the vertex and the pixel shader it stores
GetShadowProjectionShaders(Quality, c) ==
    IF c.bSubPixelSupport THEN
        [VS |-> IF c.IsWholeSceneDirectionalShadow THEN "FShadowProjectionNoTransformVS"
                ELSE "FShadowVolumeBoundProjectionVS",
         PS |-> SwitchQuality(Quality, "TShadowProjectionPS<Q, false, false, false, true>")]
    ELSE IF c.bTranslucentShadow THEN
        [VS |-> "FShadowVolumeBoundProjectionVS",
         PS |-> SwitchQuality(Quality, "TShadowProjectionFromTranslucencyPS<Q>")]
    ELSE IF c.IsWholeSceneDirectionalShadow THEN
        [VS |-> "FShadowProjectionNoTransformVS",
         PS |-> IF c.FilterMethod = 1 THEN
                    IF c.HasFadePlane
                    THEN <<"TDirectionalPercentageCloserShadowProjectionPS<5, true>", 5>>
                    ELSE <<"TDirectionalPercentageCloserShadowProjectionPS<5, false>", 5>>
                ELSE IF c.HasFadePlane THEN
                    IF c.bTransmission
                    THEN SwitchQuality(Quality, "TShadowProjectionPS<Q, true, false, true>")
                    ELSE SwitchQuality(Quality, "TShadowProjectionPS<Q, true>")
                ELSE
                    IF c.bTransmission
                    THEN SwitchQuality(Quality, "TShadowProjectionPS<Q, false, false, true>")
                    ELSE SwitchQuality(Quality, "TShadowProjectionPS<Q, false>")]
    ELSE
        [VS |-> "FShadowVolumeBoundProjectionVS",
         PS |-> IF c.bMobileModulatedProjections
                THEN SwitchQuality(Quality, "TModulatedShadowProjection<Q>")
                ELSE IF c.bTransmission
                THEN SwitchQuality(Quality, "TShadowProjectionPS<Q, false, false, true>")
                ELSE IF c.FilterMethod = 1 /\ c.IsSpot
                THEN <<"TSpotPercentageCloserShadowProjectionPS<5, false>", 5>>
                ELSE SwitchQuality(Quality, "TShadowProjectionPS<Q, false>")]

\* SetPointLightShaderTempl<Quality, bUseTransmission> under switch (LocalQuality)
SetPointLightShader(Quality, c) ==
    [VS |-> "TScreenVSForGS",
     PS |-> IF c.bTransmission
            THEN SwitchQuality(Quality, "TOnePassPointShadowProjectionPS<Q, true>")
            ELSE SwitchQuality(Quality, "TOnePassPointShadowProjectionPS<Q, false>")]

\* locals of RenderProjection and of RenderOnePassPointLightProjection
ProjectionLocals(pc, call, settings, ResolutionX, FactorQuarters) ==
    [pc |-> pc, call |-> call, settings |-> settings, ResolutionX |-> ResolutionX,
     FactorQuarters |-> FactorQuarters, LocalQuality |-> 0, Res |-> 0, Reduce |-> 0,
     TargetResolution |-> 0, Quality |-> -1, ShadowProjVS |-> "nullptr",
     ShadowProjPS |-> <<"nullptr">>]

NoProjection ==
    ProjectionLocals("none", ProjectionCall("none", FALSE, FALSE, 0, FALSE, FALSE, FALSE, FALSE,
                                            FALSE, FALSE, FALSE, 0),
                     [ShadowQuality |-> 0, LimitRenderingFeatures |-> 0, Build |-> "none"], 0, 0)

VARIABLES
    pass,            \* "CS": a Main_CS dispatch, "PS": a Main draw, "Host": RenderScreenSpaceShadows,
                     \* "Deferred": RenderShadowProjections outside its call of RenderScreenSpaceShadows
    proxy,           \* the light's FLightSceneProxy
    Views,           \* FSceneRenderer::Views: the view rectangles
    ShadowsToProject,\* VisibleLightInfo.ShadowsToProject
    host,            \* locals of RenderScreenSpaceShadows and the passes it added
    deferred,        \* locals of RenderShadowProjections
    cmds,            \* the commands issued to RHICmdList so far
    proj,            \* locals of RenderProjection and RenderOnePassPointLightProjection
    frame,           \* View.StateFrameIndexMod8
    light,           \* LightPositionOrDirection
    scene,           \* the G-buffer
    pc,              \* position of every invocation
    loc,             \* locals of every invocation
    RWShadowFactors, \* output surface of Main_CS, by pixel
    testFactors,     \* debug surface of Main_CS, by pixel (only the slots stored to)
    OutColor,        \* SV_Target0 of Main, by pixel
    writes,          \* number of stores each invocation made to RWShadowFactors
    fetches,         \* number of G-buffer samples each invocation took along its ray
    lastWrites       \* the stores of the last step: [by, surface, at]

hostVars == <<proxy, Views, ShadowsToProject, host, deferred, cmds, proj>>

shaderVars == <<frame, scene, pc, loc, RWShadowFactors, testFactors,
                OutColor, writes, fetches, lastWrites>>

vars == <<pass, light, hostVars, shaderVars>>

NoLocals ==
    [SceneDepth |-> 0, N |-> <<0, 0, 0>>, P |-> <<0, 0, 0, 0>>, Dither |-> 0, NdotL |-> 0,
     startUVZ |-> <<0, 0, 0>>, stepUVZ |-> <<0, 0, 0>>, CompareTolerance |-> 0,
     sampleTime |-> 0, i |-> 0, pos |-> <<0, 0, 0, 0>>,
     \* history: every sample so far was a self-intersection; on-screen hits so far; how it ended
     allSelf |-> TRUE, hits |-> 0, result |-> "none"]

\* a dispatch or draw over the full buffer: the state at GraphBuilder.Execute()
InitShader ==
    /\ pass \in {"CS", "PS"}
    /\ proxy \in LightProxies
    /\ light = LightPositionOrDirectionOf(proxy)
    /\ Views = << <<BufferSize, BufferSize>> >>
    /\ ShadowsToProject = << ProjectedShadow(FALSE, TRUE) >>
    /\ host = HostLocals("execute", <<>>, ShadowsToProject,
                         << ComputePass(0, 0, Views[1], light) >>)
    /\ deferred = DeferredLocals("none", "none", FALSE, FALSE)
    /\ cmds = << DispatchCommand(0, 0) >>
    /\ proj = NoProjection
    /\ frame \in 0..(MaxFrameIndex - 1)
    /\ scene \in Scenes
    /\ \E S \in Followed(scene, light, frame) :
          pc = [t \in Pixels |-> IF t \notin S THEN "idle"
                                 ELSE IF pass = "CS" THEN "start" ELSE "ps_start"]

\* the entry of RenderScreenSpaceShadows for one light
InitHost ==
    /\ pass = "Host"
    /\ proxy \in LightProxies
    /\ light = <<0, 0, 0, 0>>
    /\ Views \in ArraysUpTo(ViewRects, MaxViews) \ {<<>>}
    /\ ShadowsToProject \in ArraysUpTo(ProjectedShadows, MaxShadows)
    /\ host = HostLocals("gather", <<>>, <<>>, <<>>)
    /\ deferred = DeferredLocals("none", "none", FALSE, FALSE)
    /\ cmds = <<>>
    /\ proj = NoProjection
    /\ frame = 0
    /\ scene = Scene(300, 300, 0, 0, Upwards)
    /\ pc = [t \in Pixels |-> "idle"]

\* the entry of FDeferredShadingSceneRenderer::RenderShadowProjections for one light, or
\* the call of line 1964 for one light of the mobile renderer
InitDeferred ==
    /\ pass = "Deferred"
    /\ proxy \in LightProxies
    /\ light = <<0, 0, 0, 0>>
    /\ Views \in ViewLists
    /\ ShadowsToProject \in ShadowLists
    /\ host = HostLocals("none", <<>>, <<>>, <<>>)
    /\ \/ \E hair \in BOOLEAN, subpixel \in BOOLEAN :
             deferred = DeferredLocals("begin", "Deferred", hair, subpixel)
       \/ deferred = DeferredLocals("rsp_gather", "Mobile", FALSE, FALSE)
    /\ cmds = <<>>
    /\ proj = NoProjection
    /\ frame = 0
    /\ scene = Scene(300, 300, 0, 0, Upwards)
    /\ pc = [t \in Pixels |-> "idle"]

\* the entry of FProjectedShadowInfo::RenderProjection or of
\* FProjectedShadowInfo::RenderOnePassPointLightProjection at the choice of its shaders
InitProjection ==
    /\ pass = "Projection"
    /\ light = <<0, 0, 0, 0>>
    /\ Views = << <<8, 8>> >>
    /\ ShadowsToProject = <<>>
    /\ host = HostLocals("none", <<>>, <<>>, <<>>)
    /\ deferred = DeferredLocals("none", "none", FALSE, FALSE)
    /\ cmds = <<>>
    /\ \E call \in ProjectionCalls, settings \in QualitySettings,
          ResolutionX \in Resolutions, FactorQuarters \in PreShadowFactorQuarters :
             /\ call.bPreShadow \/ FactorQuarters = 4
             /\ proxy = CHOOSE p \in LightProxies : p.LightType = LightTypeOf(call)
             /\ proj = ProjectionLocals("begin", call, settings, ResolutionX, FactorQuarters)
    /\ frame = 0
    /\ scene = Scene(300, 300, 0, 0, Upwards)
    /\ pc = [t \in Pixels |-> "idle"]

Init ==
    /\ InitShader \/ InitHost \/ InitDeferred \/ InitProjection
    /\ loc = [t \in Pixels |-> NoLocals]
    /\ RWShadowFactors = [t \in Pixels |-> Unwritten]
    /\ testFactors = <<>>
    /\ OutColor = [t \in Pixels |-> <<-1, -1, -1, -1>>]
    /\ writes = [t \in Pixels |-> 0]
    /\ fetches = [t \in Pixels |-> 0]
    /\ lastWrites = {}

\* ---------------------------------------------------------------- Main_CS
\* mutant of ScreenUVOf: the view rectangle's offset is left out
ScreenUVOf_NoOffset(t, vmin) ==
    << FloorDiv((2 * t[1] + 1) * One, 2 * BufferSize),
       FloorDiv((2 * t[2] + 1) * One, 2 * BufferSize) >>

\* line 113 for a view whose rectangle starts at vmin:
\* (DispatchThreadId.xy + View.ViewRectMin.xy + .5f) * View.BufferSizeAndInvSize.zw
ScreenUVOf(t, vmin) ==
    << FloorDiv((2 * (t[1] + vmin[1]) + 1) * One, 2 * BufferSize),
       FloorDiv((2 * (t[2] + vmin[2]) + 1) * One, 2 * BufferSize) >>

\* ScreenUV = (DispatchThreadId.xy + View.ViewRectMin.xy + .5f) * View.BufferSizeAndInvSize.zw
ScreenUV(t) == ScreenUVOf(t, ViewRectMin)

\* ScreenPosition = (ScreenUV - View.ScreenPositionScaleBias.wz) / View.ScreenPositionScaleBias.xy
ScreenPosition(uv) ==
    << FloorDiv((uv[1] - ScreenPositionScaleBias[4]) * One, ScreenPositionScaleBias[1]),
       FloorDiv((uv[2] - ScreenPositionScaleBias[3]) * One, ScreenPositionScaleBias[2]) >>

\* mul(float4(ScreenPosition * SceneDepth, SceneDepth, 1), View.ScreenToTranslatedWorld)
PositionTranslatedWorld(sp, SceneDepth) ==
    Mul(<< FloorDiv(sp[1] * SceneDepth, One), FloorDiv(sp[2] * SceneDepth, One), SceneDepth, WOne >>,
        ScreenToTranslatedWorld)

\* const float3 LightDirection = -LightPositionOrDirection.xyz
LightDirection == << -light[1], -light[2], -light[3] >>

\* all(0.0 < sampleUVZ.xy && sampleUVZ.xy < 1.0)
OnScreen(uv) == 0 < uv[1] /\ uv[1] < One /\ 0 < uv[2] /\ uv[2] < One

\* clip.xyz / clip.w : xy to NDC (One), z to device depth (ZOne)
ClipToScreen(c) ==
    << FloorDiv(c[1] * One, c[4]), FloorDiv(c[2] * One, c[4]), FloorDiv(c[3] * ZOne, c[4]) >>

\* mutant of IsBackface: the test is strict, NdotL = 0 marches
IsBackface_Strict(NdotL) == NdotL < 0

\* lines 43, 141: if (NdotL <= 0.0)
IsBackface(NdotL) == NdotL <= 0

\* mutant of LoopCondition: the loop runs one iteration too many
LoopCondition_OffByOne(i) == i <= NumSteps

\* line 178: i < NumSteps
LoopCondition(i) == i < NumSteps

\* mutant of ShadowedResult: the depth echo is left at the cleared value
ShadowedResult_NoEcho(SceneDepth) == <<F(0), F(1)>>

\* lines 142, 203: float2(0.0, SceneDepth)
ShadowedResult(SceneDepth) == <<F(0), SceneDepth>>

\* mutant of UnshadowedResult: the march starts from the shadowed value
UnshadowedResult_Shadowed(SceneDepth) == <<F(0), SceneDepth>>

\* line 174: float2(1.0, SceneDepth)
UnshadowedResult(SceneDepth) == <<F(1), SceneDepth>>

\* store to RWShadowFactors[DispatchThreadId.xy]
StoreShadowFactors(t, v) ==
    /\ RWShadowFactors' = [RWShadowFactors EXCEPT ![t] = v]
    /\ writes' = [writes EXCEPT ![t] = @ + 1]

StoreRecord(t, surface, at) == [by |-> t, surface |-> surface, at |-> at]

\* store to testFactors[at]
StoreTestFactors(at, v) == (at :> v) @@ testFactors

\* lines 112-127: read the pixel's G-buffer entry, reconstruct its position,
\* store (test.z, test.w)
CS_Begin(t) ==
    /\ pass = "CS" /\ pc[t] = "start"
    /\ LET GBuffer == GetGBufferDataFromSceneTextures(scene, ScreenUV(t))
           P       == PositionTranslatedWorld(ScreenPosition(ScreenUV(t)), GBuffer.Depth)
           test    == Mul(<<0, 0, P[3], WOne>>, TranslatedWorldToClip)
       IN  /\ loc' = [loc EXCEPT ![t].SceneDepth = GBuffer.Depth,
                                 ![t].N = GBuffer.WorldNormal,
                                 ![t].P = P]
           /\ StoreShadowFactors(t, <<test[3], test[4]>>)
    /\ lastWrites' = {StoreRecord(t, "RWShadowFactors", t)}
    /\ pc' = [pc EXCEPT ![t] = "clear"]
    /\ UNCHANGED <<pass, hostVars, frame, light, scene, testFactors, OutColor, fetches>>

\* mutant of StateFrameIndexMod8: the seed is read from mutable shared state
StateFrameIndexMod8_Shared == frame + Cardinality(DOMAIN testFactors)

\* line 130: View.StateFrameIndexMod8
StateFrameIndexMod8 == frame

\* lines 128-140: store (0, 1); Dither, LightDirection, NdotL
CS_Clear(t) ==
    /\ pass = "CS" /\ pc[t] = "clear"
    /\ StoreShadowFactors(t, <<F(0), F(1)>>)
    /\ loc' = [loc EXCEPT ![t].Dither = InterleavedGradientNoise(t[1], t[2], StateFrameIndexMod8),
                          ![t].NdotL = Dot3(loc[t].N, LightDirection)]
    /\ lastWrites' = {StoreRecord(t, "RWShadowFactors", t)}
    /\ pc' = [pc EXCEPT ![t] = "facing"]
    /\ UNCHANGED <<pass, hostVars, frame, light, scene, testFactors, OutColor, fetches>>

\* lines 141-144: skip back ray
CS_Backface(t) ==
    /\ pass = "CS" /\ pc[t] = "facing"
    /\ IsBackface(loc[t].NdotL)
    /\ StoreShadowFactors(t, ShadowedResult(loc[t].SceneDepth))
    /\ lastWrites' = {StoreRecord(t, "RWShadowFactors", t)}
    /\ loc' = [loc EXCEPT ![t].result = "backface"]
    /\ pc' = [pc EXCEPT ![t] = "done"]
    /\ UNCHANGED <<pass, hostVars, frame, light, scene, testFactors, OutColor, fetches>>

\* lines 147-150: RayLength
RayLength(SceneDepth) == GetTanHalfFieldOfView[2] * SceneDepth * contactShadowLength

\* line 152: the clip-space start of the ray
StartClip(P) == Mul(P, TranslatedWorldToClip)

\* lines 153-154: the clip-space end of the ray
EndClip(P, L, len) ==
    LET startClip == StartClip(P)
        dirClip   == Mul(<< FloorDiv(L[1] * len, One), FloorDiv(L[2] * len, One),
                            FloorDiv(L[3] * len, One), 0 >>, TranslatedWorldToClip)
    IN  [c \in 1..4 |-> startClip[c] + dirClip[c]]

\* line 160: startUVZ
StartUVZ(startScreen) ==
    << FloorDiv(startScreen[1] * ScreenPositionScaleBias[1], One) + ScreenPositionScaleBias[4],
       FloorDiv(startScreen[2] * ScreenPositionScaleBias[2], One) + ScreenPositionScaleBias[3],
       startScreen[3] >>

\* lines 158, 161: stepUVZ
StepUVZ(startScreen, endScreen) ==
    << FloorDiv((endScreen[1] - startScreen[1]) * ScreenPositionScaleBias[1], One),
       FloorDiv((endScreen[2] - startScreen[2]) * ScreenPositionScaleBias[2], One),
       endScreen[3] - startScreen[3] >>

\* lines 163-164: depthScreen.z
DepthScreenZ(P, len) ==
    LET startClip == StartClip(P)
        d         == Mul(<<0, 0, len, 0>>, ViewToClip)
    IN  ClipToScreen([c \in 1..4 |-> startClip[c] + d[c]])[3]

\* mutant of FirstSampleTime: the dither is not centred, stepOffset = Dither
FirstSampleTime_NotCentred(Dither) ==
    FloorDiv(2 * Dither * StepTime, 2 * DitherOne) + StepTime

\* lines 167-169: sampleTime = stepOffset * step + step, stepOffset = Dither - 0.5f
FirstSampleTime(Dither) ==
    FloorDiv((2 * Dither - DitherOne) * StepTime, 2 * DitherOne) + StepTime

\* mutant of CompareToleranceOf: the scale factor is left out
CompareToleranceOf_Unscaled(depthScreenZ, startScreenZ) ==
    FloorDiv(Abs(depthScreenZ - startScreenZ) * StepTime, TimeOne)

\* line 172: CompareTolerance
CompareToleranceOf(depthScreenZ, startScreenZ) ==
    FloorDiv(Abs(depthScreenZ - startScreenZ) * StepTime, TimeOne) * CompareTorelanceScale

\* lines 146-174: set the march up and store the unshadowed result
CS_Setup(t) ==
    /\ pass = "CS" /\ pc[t] = "facing"
    /\ ~IsBackface(loc[t].NdotL)
    /\ LET len         == RayLength(loc[t].SceneDepth)
           startScreen == ClipToScreen(StartClip(loc[t].P))
           endScreen   == ClipToScreen(EndClip(loc[t].P, LightDirection, len))
       IN  loc' = [loc EXCEPT
                     ![t].startUVZ = StartUVZ(startScreen),
                     ![t].stepUVZ = StepUVZ(startScreen, endScreen),
                     ![t].sampleTime = FirstSampleTime(loc[t].Dither),
                     ![t].CompareTolerance =
                         CompareToleranceOf(DepthScreenZ(loc[t].P, len), startScreen[3])]
    /\ StoreShadowFactors(t, UnshadowedResult(loc[t].SceneDepth))
    /\ lastWrites' = {StoreRecord(t, "RWShadowFactors", t)}
    /\ pc' = [pc EXCEPT ![t] = "testclear"]
    /\ UNCHANGED <<pass, hostVars, frame, light, scene, testFactors, OutColor, fetches>>

\* line 176: testFactors[DispatchThreadId.xy] = float2(0, 0)
CS_TestClear(t) ==
    /\ pass = "CS" /\ pc[t] = "testclear"
    /\ testFactors' = StoreTestFactors(t, <<F(0), F(0)>>)
    /\ lastWrites' = {StoreRecord(t, "testFactors", t)}
    /\ pc' = [pc EXCEPT ![t] = "loop"]
    /\ UNCHANGED <<pass, hostVars, frame, light, scene, loc, RWShadowFactors, OutColor, writes, fetches>>

\* line 180: sampleUVZ = startUVZ + stepUVZ * sampleTime
SampleUVZ(l) ==
    [c \in 1..3 |-> l.startUVZ[c] + FloorDiv(l.stepUVZ[c] * l.sampleTime, TimeOne)]

\* lines 181-184: the device depth the G-buffer holds at the sample
SampleDepth(l) ==
    ConvertToDeviceZ(GetGBufferDataFromSceneTextures(scene, SampleUVZ(l)).Depth)

\* line 189: selfOcclusion
SelfOcclusion(l) == Abs(l.startUVZ[3] - SampleDepth(l)) < SelfOcclusionEps

\* mutant of Hit: the self-intersection test is dropped
Hit_NoSelfTest(l) ==
    LET depthDiff == SampleUVZ(l)[3] - SampleDepth(l)
    IN  Abs(depthDiff + l.CompareTolerance) < l.CompareTolerance

\* lines 186, 191: Hit
Hit(l) ==
    LET depthDiff == SampleUVZ(l)[3] - SampleDepth(l)
    IN  Abs(depthDiff + l.CompareTolerance) < l.CompareTolerance /\ ~SelfOcclusion(l)

\* history: 1 when the sample of this iteration passes the hit test at an on-screen UV
OnScreenHit(l) ==
    LET uvz == SampleUVZ(l)
        d   == uvz[3] - SampleDepth(l)
    IN  IF /\ Abs(d + l.CompareTolerance) < l.CompareTolerance
           /\ Abs(l.startUVZ[3] - SampleDepth(l)) >= SelfOcclusionEps
           /\ 0 < uvz[1] /\ uvz[1] < One /\ 0 < uvz[2] /\ uvz[2] < One
        THEN 1 ELSE 0

\* mutant of ShadowedAtStep: the screen-rectangle test is dropped
ShadowedAtStep_AnyHit(l) == Hit(l)

\* line 202: if (Hit && all(0.0 < sampleUVZ.xy && sampleUVZ.xy < 1.0))
ShadowedAtStep(l) == Hit(l) /\ OnScreen(SampleUVZ(l))

\* lines 196-197: uint2((sampleUVZ.xy * BufferSize) - 0.5 - ViewRectMin.xy)
SamplePixelInt(uv) ==
    [c \in 1..2 |->
        LET samplePixel == uv[c] * BufferSize - One \div 2 - ViewRectMin[c] * One
        IN  IF samplePixel < 0 THEN 0 ELSE samplePixel \div One]

\* line 194: the invocation whose sample trail is recorded
IsDebugPixel(t) == t[1] = DebugPixelX /\ t[2] = DebugPixelY

\* lines 193-200: the stores of the debug path of one iteration, in program order
DebugStores(t, uv) ==
    IF ~IsDebugPixel(t) THEN <<>>
    ELSE IF OnScreen(uv) THEN <<t, SamplePixelInt(uv)>>
    ELSE <<t>>

\* mutant of AfterHit: the march goes on after the store of a hit
AfterHit_MarchOn == "loop"

\* line 204: return
AfterHit == "done"

\* lines 178-207: one iteration of the march
CS_Step(t) ==
    /\ pass = "CS" /\ pc[t] = "loop"
    /\ LoopCondition(loc[t].i)
    /\ LET l   == loc[t]
           uvz == SampleUVZ(l)
           dbg == DebugStores(t, uvz)
           hit == ShadowedAtStep(l)
       IN  /\ fetches' = [fetches EXCEPT ![t] = @ + 1]
           /\ testFactors' =
                 [at \in DOMAIN testFactors \cup {dbg[k] : k \in 1..Len(dbg)} |->
                     IF \E k \in 1..Len(dbg) : dbg[k] = at THEN <<F(1), F(0)>>
                     ELSE testFactors[at]]
           /\ IF hit
              THEN /\ StoreShadowFactors(t, ShadowedResult(l.SceneDepth))
                   /\ lastWrites' = {StoreRecord(t, "testFactors", dbg[k]) : k \in 1..Len(dbg)}
                                      \cup {StoreRecord(t, "RWShadowFactors", t)}
                   /\ loc' = [loc EXCEPT ![t].allSelf = @ /\ SelfOcclusion(l),
                                         ![t].hits = @ + OnScreenHit(l),
                                         ![t].result = "hit"]
                   /\ pc' = [pc EXCEPT ![t] = AfterHit]
              ELSE /\ lastWrites' = {StoreRecord(t, "testFactors", dbg[k]) : k \in 1..Len(dbg)}
                   /\ loc' = [loc EXCEPT ![t].allSelf = @ /\ SelfOcclusion(l),
                                         ![t].hits = @ + OnScreenHit(l),
                                         ![t].sampleTime = @ + StepTime,
                                         ![t].i = @ + 1]
                   /\ UNCHANGED <<pc, RWShadowFactors, writes>>
    /\ UNCHANGED <<pass, hostVars, frame, light, scene, OutColor>>

\* lines 178, 210: the loop is exhausted
CS_Return(t) ==
    /\ pass = "CS" /\ pc[t] = "loop"
    /\ ~LoopCondition(loc[t].i)
    /\ loc' = [loc EXCEPT ![t].result = "nohit"]
    /\ pc' = [pc EXCEPT ![t] = "done"]
    /\ lastWrites' = {}
    /\ UNCHANGED <<pass, hostVars, frame, light, scene, RWShadowFactors, testFactors, OutColor,
                   writes, fetches>>

\* ---------------------------------------------------------------- Main
\* lines 44, 79: OutColor = float4(0, 0, 0, 1)
Black == <<F(0), F(0), F(0), F(1)>>

\* mutant of White: the march starts from the shadowed colour
White_Shadowed == Black

\* line 57: OutColor = float4(1, 1, 1, 1)
White == <<F(1), F(1), F(1), F(1)>>

\* SvPosition.xy of the pixel, in half pixels: the pixel centre
SvPosition2(t) == << 2 * (t[1] + ViewRectMin[1]) + 1, 2 * (t[2] + ViewRectMin[2]) + 1 >>

\* line 17: UV = SvPosition.xy * View.BufferSizeAndInvSize.zw
PS_ScreenUV(t) ==
    << FloorDiv(SvPosition2(t)[1] * One, 2 * BufferSize),
       FloorDiv(SvPosition2(t)[2] * One, 2 * BufferSize) >>

\* line 24: (SvPosition.xy - View.ViewRectMin.xy) * View.ViewSizeAndInvSize.zw
PS_ViewportUV(t) ==
    << FloorDiv((SvPosition2(t)[1] - 2 * ViewRectMin[1]) * One, 2 * BufferSize),
       FloorDiv((SvPosition2(t)[2] - 2 * ViewRectMin[2]) * One, 2 * BufferSize) >>

\* line 24: ViewportUVToScreenPos(ViewportUV) = (2u - 1, 1 - 2v)
ViewportUVToScreenPos(uv) == << 2 * uv[1] - One, One - 2 * uv[2] >>

\* line 53: PositionTranslatedWorld + float4(N, 0) * Thickness
OffsetAlongNormal(P, N) ==
    [c \in 1..4 |->
        IF c = 4 THEN P[c] ELSE P[c] + FloorDiv(N[c] * ThicknessPercent * WOne, 100 * One)]

\* line 50: rayStep = float4(LightDirection * stepSize, 0)
RayStep(L) ==
    << FloorDiv(L[1] * stepSize * WOne, One), FloorDiv(L[2] * stepSize * WOne, One),
       FloorDiv(L[3] * stepSize * WOne, One), 0 >>

\* line 64: currentUV = (clip.xy * rcp(clip.w)) * float2(0.5, -0.5) + 0.5
ClipToUV(c) ==
    << FloorDiv(FloorDiv(c[1] * One, c[4]), 2) + One \div 2,
       FloorDiv(-FloorDiv(c[2] * One, c[4]), 2) + One \div 2 >>

\* mutant of OffScreen: only the upper bounds are tested
OffScreen_AboveOnly(uv) == uv[1] > One \/ uv[2] > One

\* line 67: any(currentUV < 0.0) || any(currentUV > 1.0)
OffScreen(uv) == uv[1] < 0 \/ uv[2] < 0 \/ uv[1] > One \/ uv[2] > One

\* lines 62, 64: the UV the position projects to
PS_UV(pos) == ClipToUV(Mul(pos, TranslatedWorldToClip))

\* lines 62-63, 71-75: depthDiff = currentSceneDepth - sampleSceneDepth
PS_DepthDiff(pos) ==
    LET clip == Mul(pos, TranslatedWorldToClip)
    IN  ConvertFromDeviceZ(FloorDiv(clip[3] * ZOne, clip[4]))
          - GetGBufferDataFromSceneTextures(scene, PS_UV(pos)).Depth

\* line 77: if (depthDiff > 0.1 && depthDiff < 50)
PS_Hit(pos) ==
    PS_DepthDiff(pos) * 10 > PSMinDiffTenths * WOne /\ PS_DepthDiff(pos) < PSMaxDiff * WOne

\* lines 13-57: reconstruct the position, reject back faces, start the march
PS_Begin(t) ==
    /\ pass = "PS" /\ pc[t] = "ps_start"
    /\ LET GBuffer == GetGBufferDataFromSceneTextures(scene, PS_ScreenUV(t))
           P       == PositionTranslatedWorld(ViewportUVToScreenPos(PS_ViewportUV(t)),
                                              GBuffer.Depth)
           NdotL   == Dot3(GBuffer.WorldNormal, LightDirection)
       IN  IF IsBackface(NdotL)
           THEN /\ OutColor' = [OutColor EXCEPT ![t] = Black]
                /\ loc' = [loc EXCEPT ![t].SceneDepth = GBuffer.Depth,
                                      ![t].N = GBuffer.WorldNormal,
                                      ![t].P = P,
                                      ![t].NdotL = NdotL,
                                      ![t].result = "backface"]
                /\ pc' = [pc EXCEPT ![t] = "done"]
           ELSE /\ OutColor' = [OutColor EXCEPT ![t] = White]
                /\ loc' = [loc EXCEPT ![t].SceneDepth = GBuffer.Depth,
                                      ![t].N = GBuffer.WorldNormal,
                                      ![t].P = P,
                                      ![t].NdotL = NdotL,
                                      ![t].pos = OffsetAlongNormal(P, GBuffer.WorldNormal)]
                /\ pc' = [pc EXCEPT ![t] = "ps_loop"]
    /\ lastWrites' = {}
    /\ UNCHANGED <<pass, hostVars, frame, light, scene, RWShadowFactors, testFactors, writes, fetches>>

\* lines 58-85: one iteration of the world-space march
PS_Step(t) ==
    /\ pass = "PS" /\ pc[t] = "ps_loop"
    /\ loc[t].i < PSNumSteps
    /\ LET step    == RayStep(LightDirection)
           pos     == [c \in 1..4 |-> loc[t].pos[c] + step[c]]
       IN  IF OffScreen(PS_UV(pos))
           THEN /\ loc' = [loc EXCEPT ![t].pos = pos, ![t].result = "offscreen"]
                /\ pc' = [pc EXCEPT ![t] = "done"]
                /\ UNCHANGED <<OutColor, fetches>>
           ELSE /\ fetches' = [fetches EXCEPT ![t] = @ + 1]
                /\ IF PS_Hit(pos)
                   THEN /\ OutColor' = [OutColor EXCEPT ![t] = Black]
                        /\ loc' = [loc EXCEPT ![t].pos = pos, ![t].result = "hit"]
                        /\ pc' = [pc EXCEPT ![t] = "done"]
                   ELSE /\ loc' = [loc EXCEPT ![t].pos = pos, ![t].i = @ + 1]
                        /\ UNCHANGED <<pc, OutColor>>
    /\ lastWrites' = {}
    /\ UNCHANGED <<pass, hostVars, frame, light, scene, RWShadowFactors, testFactors, writes>>

\* lines 58, 85: the loop is exhausted
PS_Return(t) ==
    /\ pass = "PS" /\ pc[t] = "ps_loop"
    /\ loc[t].i >= PSNumSteps
    /\ loc' = [loc EXCEPT ![t].result = "nohit"]
    /\ pc' = [pc EXCEPT ![t] = "done"]
    /\ lastWrites' = {}
    /\ UNCHANGED <<pass, hostVars, frame, light, scene, RWShadowFactors, testFactors, OutColor,
                   writes, fetches>>

\* ---------------------------------------------------------------- RenderScreenSpaceShadows
IsDistanceField(sh) == sh.bRayTracedDistanceField

IsNormal(sh) == ~sh.bRayTracedDistanceField

\* the iteration (ViewIndex, ShadowIndex) of the nested loops is about to run
InBody ==
    /\ pass = "Host" /\ host.pc = "loop"
    /\ host.ViewIndex < Len(Views)
    /\ host.ShadowIndex < Len(host.NormalShadows)

\* part_001 line 1689: Views[ViewIndex].ViewRect
CurrentViewRect == Views[host.ViewIndex + 1]

\* part_001 line 1693: NormalShadows[ShadowIndex]
CurrentShadow == host.NormalShadows[host.ShadowIndex + 1]

\* part_001 lines 1673-1686: sort the shadows of the light into the two arrays
Host_Gather ==
    /\ pass = "Host" /\ host.pc = "gather"
    /\ LET normal == SelectSeq(ShadowsToProject, IsNormal)
       IN  host' = [host EXCEPT !.DistanceFieldShadows = SelectSeq(ShadowsToProject, IsDistanceField),
                                !.NormalShadows = normal,
                                !.pc = IF Len(normal) > 0 THEN "loop" ELSE "exit"]
    /\ UNCHANGED <<pass, light, proxy, Views, ShadowsToProject, proj, deferred, cmds, shaderVars>>

\* part_001 lines 1687, 1691: the shadows of a view are done, go to the next view
Host_NextView ==
    /\ pass = "Host" /\ host.pc = "loop"
    /\ host.ViewIndex < Len(Views)
    /\ host.ShadowIndex >= Len(host.NormalShadows)
    /\ host' = [host EXCEPT !.ViewIndex = @ + 1, !.ShadowIndex = 0]
    /\ UNCHANGED <<pass, light, proxy, Views, ShadowsToProject, proj, deferred, cmds, shaderVars>>

\* part_001 line 1695: a shadow that is not allocated adds nothing
Host_NotAllocated ==
    /\ InBody
    /\ ~CurrentShadow.bAllocated
    /\ host' = [host EXCEPT !.ShadowIndex = @ + 1]
    /\ UNCHANGED <<pass, light, proxy, Views, ShadowsToProject, proj, deferred, cmds, shaderVars>>

\* part_001 lines 1825-1828: a group count of zero ends the function
Host_Degenerate ==
    /\ InBody
    /\ CurrentShadow.bAllocated
    /\ IsDegenerate(GroupSize(CurrentViewRect))
    /\ light' = LightPositionOrDirectionOf(proxy)
    /\ host' = [host EXCEPT !.pc = "returned", !.result = "false"]
    /\ UNCHANGED <<pass, proxy, Views, ShadowsToProject, proj, deferred, cmds, shaderVars>>

\* part_001 lines 1697-1837: create the surfaces, fill the parameters, add the pass
Host_AddPass ==
    /\ InBody
    /\ CurrentShadow.bAllocated
    /\ ~IsDegenerate(GroupSize(CurrentViewRect))
    /\ light' = LightPositionOrDirectionOf(proxy)
    /\ host' = [host EXCEPT
                  !.passes = Append(@, ComputePass(host.ViewIndex, host.ShadowIndex,
                                                   CurrentViewRect, light')),
                  !.ShadowIndex = @ + 1]
    /\ cmds' = Append(cmds, DispatchCommand(host.ViewIndex, host.ShadowIndex))
    /\ UNCHANGED <<pass, proxy, Views, ShadowsToProject, proj, deferred, shaderVars>>

\* part_001 lines 1686-1687, 1847: no shadow to project or every view done
Host_Return ==
    /\ pass = "Host"
    /\ \/ host.pc = "exit"
       \/ host.pc = "loop" /\ host.ViewIndex >= Len(Views)
    /\ host' = [host EXCEPT !.pc = "returned", !.result = "true"]
    /\ UNCHANGED <<pass, light, proxy, Views, ShadowsToProject, proj, deferred, cmds, shaderVars>>

\* ---------------------------------------------------------------- RenderShadowProjections
\* the indices of the shadows of ShadowsToProject that satisfy Test, in order
\* (an index stands for the FProjectedShadowInfo pointer)
RECURSIVE ShadowsWhere(_, _)
ShadowsWhere(Test(_), n) ==
    IF n = 0 THEN <<>>
    ELSE IF Test(ShadowsToProject[n]) THEN Append(ShadowsWhere(Test, n - 1), n)
    ELSE ShadowsWhere(Test, n - 1)

\* the concatenation of the command lists f[1], ..., f[n]
RECURSIVE Flatten(_, _)
Flatten(f, n) == IF n = 0 THEN <<>> ELSE Flatten(f, n - 1) \o f[n]

\* lines 1536, 1559: the iteration (ViewIndex, ShadowIndex) of RenderShadowMask is about to run
InShadowMask ==
    /\ pass = "Deferred" /\ deferred.pc = "rsp_mask"
    /\ deferred.ViewIndex < Len(Views)
    /\ deferred.ShadowIndex < Len(deferred.NormalShadows)

\* line 1561: NormalShadows[ShadowIndex]
CurrentNormalShadow == deferred.NormalShadows[deferred.ShadowIndex + 1]

\* mutant of ShouldProject: the allocation of the shadow is not tested
ShouldProject_NoAllocationTest(sh, ViewIndex) == sh.FadeAlphas[ViewIndex + 1] > MinFadeAlpha

\* lines 1563-1566: bAllocated and FadeAlphas[ViewIndex] > 1.0f / 256.0f
ShouldProject(sh, ViewIndex) ==
    sh.bAllocated /\ sh.FadeAlphas[ViewIndex + 1] > MinFadeAlpha

\* lines 1568-1575: the projection of shadow k for a view
ProjectionCommand(ViewIndex, k) ==
    Command(IF ShadowsToProject[k].bOnePassPointLightShadow
            THEN "RenderOnePassPointLightProjection" ELSE "RenderProjection",
            ViewIndex, k, {"ShadowDepthTexture", "SceneDepthSurface"}, {deferred.RenderTarget})

\* line 1651: the distance-field projection of shadow k for a view
DistanceFieldCommand(ViewIndex, k) ==
    Command("RenderRayTracedDistanceFieldProjection", ViewIndex, k,
            {"GlobalDistanceField", "SceneDepthSurface"},
            {IF deferred.caller = "Deferred" THEN ShadowMask ELSE "nullptr"})

\* lines 1853-1862: the deferred renderer enters and calls FSceneRenderer::RenderShadowProjections
D_Begin ==
    /\ pass = "Deferred" /\ deferred.pc = "begin"
    /\ ~deferred.bInsideRenderPass
    /\ deferred' = [deferred EXCEPT
                      !.pc = "rsp_gather",
                      !.HairVisibilityViews = deferred.HairDatas]
    /\ UNCHANGED <<pass, light, proxy, Views, ShadowsToProject, proj, host, cmds, shaderVars>>

\* lines 1511-1532: sort the shadows of the light into the two arrays
RSP_Gather ==
    /\ pass = "Deferred" /\ deferred.pc = "rsp_gather"
    /\ LET normal == ShadowsWhere(IsNormal, Len(ShadowsToProject))
       IN  deferred' = [deferred EXCEPT
                          !.DistanceFieldShadows = ShadowsWhere(IsDistanceField, Len(ShadowsToProject)),
                          !.NormalShadows = normal,
                          !.pc = IF Len(normal) > 0 THEN "rsp_normal" ELSE "rsp_df"]
    /\ UNCHANGED <<pass, light, proxy, Views, ShadowsToProject, proj, host, cmds, shaderVars>>

\* lines 1583-1587, 1591-1602: begin the pass the normal shadows are rendered in
RSP_BeginShadowMask ==
    /\ pass = "Deferred" /\ deferred.pc = "rsp_normal"
    /\ IF deferred.bMobileModulatedProjections
       THEN /\ deferred.bInsideRenderPass
            /\ deferred' = [deferred EXCEPT !.pc = "rsp_mask", !.RenderTarget = "SceneColor",
                                            !.ViewIndex = 0, !.ShadowIndex = 0]
            /\ UNCHANGED cmds
       ELSE /\ ~deferred.bInsideRenderPass
            /\ deferred' = [deferred EXCEPT !.pc = "rsp_mask", !.RenderTarget = ShadowMask,
                                            !.bInsideRenderPass = TRUE,
                                            !.ViewIndex = 0, !.ShadowIndex = 0]
            /\ cmds' = Append(cmds, Command("BeginRenderPass", -1, -1, {ShadowMask}, {}))
    /\ UNCHANGED <<pass, light, proxy, Views, ShadowsToProject, proj, host, shaderVars>>

\* lines 1559-1578: one shadow of one view
RSP_Project ==
    /\ InShadowMask
    /\ cmds' = IF ShouldProject(ShadowsToProject[CurrentNormalShadow], deferred.ViewIndex)
               THEN Append(cmds, ProjectionCommand(deferred.ViewIndex, CurrentNormalShadow))
               ELSE cmds
    /\ deferred' = [deferred EXCEPT !.ShadowIndex = @ + 1]
    /\ UNCHANGED <<pass, light, proxy, Views, ShadowsToProject, proj, host, shaderVars>>

\* lines 1536, 1559: the shadows of a view are done, go to the next view
RSP_NextView ==
    /\ pass = "Deferred" /\ deferred.pc = "rsp_mask"
    /\ deferred.ViewIndex < Len(Views)
    /\ deferred.ShadowIndex >= Len(deferred.NormalShadows)
    /\ deferred' = [deferred EXCEPT !.ViewIndex = @ + 1, !.ShadowIndex = 0]
    /\ UNCHANGED <<pass, light, proxy, Views, ShadowsToProject, proj, host, cmds, shaderVars>>

\* line 1608: the sub-pixel pass follows the pass of the shadow mask
SubPixelPassFollows ==
    /\ ~deferred.bMobileModulatedProjections
    /\ deferred.ScreenShadowMaskSubPixelTexture
    /\ deferred.HairVisibilityViews
    /\ deferred.RenderTarget = ShadowMask

\* lines 1589, 1603-1604, 1620-1621: every view done, end the pass
RSP_EndShadowMask ==
    /\ pass = "Deferred" /\ deferred.pc = "rsp_mask"
    /\ deferred.ViewIndex >= Len(Views)
    /\ cmds' = IF deferred.bMobileModulatedProjections THEN cmds
               ELSE Append(cmds, Command("EndRenderPass", -1, -1, {}, {}))
    /\ deferred' = [deferred EXCEPT
                      !.pc = IF SubPixelPassFollows THEN "rsp_subpixel" ELSE "rsp_df",
                      !.bInsideRenderPass = deferred.bMobileModulatedProjections,
                      !.ViewIndex = 0, !.ShadowIndex = 0]
    /\ UNCHANGED <<pass, light, proxy, Views, ShadowsToProject, proj, host, shaderVars>>

\* lines 1608-1619: begin the pass of the sub-pixel shadow mask
RSP_BeginSubPixel ==
    /\ pass = "Deferred" /\ deferred.pc = "rsp_subpixel"
    /\ ~deferred.bInsideRenderPass
    /\ deferred' = [deferred EXCEPT !.pc = "rsp_mask", !.RenderTarget = ShadowMaskSubPixel,
                                    !.bInsideRenderPass = TRUE,
                                    !.ViewIndex = 0, !.ShadowIndex = 0]
    /\ cmds' = Append(cmds, Command("BeginRenderPass", -1, -1, {ShadowMaskSubPixel}, {}))
    /\ UNCHANGED <<pass, light, proxy, Views, ShadowsToProject, proj, host, shaderVars>>

\* lines 1628-1657: the distance-field shadows of one view; the scissor rectangle
\* is the view rectangle or what the light's SetScissorRect gives (here: nothing)
RSP_DistanceField ==
    /\ pass = "Deferred" /\ deferred.pc = "rsp_df"
    /\ Len(deferred.DistanceFieldShadows) > 0
    /\ deferred.ViewIndex < Len(Views)
    /\ \E ScissorRect \in {Views[deferred.ViewIndex + 1], <<0, 0>>} :
          cmds' = IF ScissorRect[1] * ScissorRect[2] > 0
                  THEN cmds \o [k \in 1..Len(deferred.DistanceFieldShadows) |->
                                   DistanceFieldCommand(deferred.ViewIndex,
                                                        deferred.DistanceFieldShadows[k])]
                  ELSE cmds
    /\ deferred' = [deferred EXCEPT !.ViewIndex = @ + 1]
    /\ UNCHANGED <<pass, light, proxy, Views, ShadowsToProject, proj, host, shaderVars>>

\* line 1660: return true
RSP_Return ==
    /\ pass = "Deferred" /\ deferred.pc = "rsp_df"
    /\ Len(deferred.DistanceFieldShadows) = 0 \/ deferred.ViewIndex >= Len(Views)
    /\ deferred' = IF deferred.caller = "Deferred"
                   THEN [deferred EXCEPT !.pc = "sss"]
                   ELSE [deferred EXCEPT !.pc = "returned", !.result = "true"]
    /\ UNCHANGED <<pass, light, proxy, Views, ShadowsToProject, proj, host, cmds, shaderVars>>

\* lines 1864-1870: the draw event, SetStencilRef(0) and the call of RenderScreenSpaceShadows
D_ScreenSpaceShadows ==
    /\ pass = "Deferred" /\ deferred.pc = "sss"
    /\ cmds' = cmds \o << Command("PushEvent ScreenSpaceShadows", -1, -1, {}, {}),
                          Command("SetStencilRef", -1, -1, {}, {}) >>
    /\ pass' = "Host"
    /\ host' = HostLocals("gather", <<>>, <<>>, <<>>)
    /\ deferred' = [deferred EXCEPT !.pc = "in_sss"]
    /\ UNCHANGED <<light, proxy, Views, ShadowsToProject, proj, shaderVars>>

\* lines 1879-1886: the shadowed light of shadow k is injected into the translucency
\* volume; HasStaticShadowing is what the light's proxy answers
InjectsTranslucentVolume(k, HasStaticShadowing) ==
    LET sh == ShadowsToProject[k]
    IN  /\ sh.bAllocated /\ sh.bWholeSceneShadow /\ ~sh.bRayTracedDistanceField
        /\ ~HasStaticShadowing \/ sh.bWholeSceneDirectional

\* lines 1892-1915: the injections of shadow k, one per view (no DependentView)
InjectCommands(k) ==
    [v \in 1..Len(Views) |->
        Command("InjectTranslucentVolumeLighting", v - 1, k, {"ShadowDepthTexture"},
                {"TranslucencyLightingVolume"})]

\* lines 1871-1917: RenderScreenSpaceShadows has returned (its result is dropped);
\* inject the whole-scene shadows into the translucency lighting volumes
D_InjectTranslucentVolume ==
    /\ pass = "Host" /\ host.pc = "returned" /\ deferred.pc = "in_sss"
    /\ pass' = "Deferred"
    /\ \E HasStaticShadowing \in BOOLEAN :
          LET n == Len(ShadowsToProject)
          IN  /\ cmds' = cmds \o Flatten([k \in 1..n |->
                                            IF InjectsTranslucentVolume(k, HasStaticShadowing)
                                            THEN InjectCommands(k) ELSE <<>>], n)
              /\ deferred' = [deferred EXCEPT
                                !.pc = "capsule",
                                !.bInjectedTranslucentVolume =
                                    \E k \in 1..n : InjectsTranslucentVolume(k, HasStaticShadowing)]
    /\ UNCHANGED <<light, proxy, Views, ShadowsToProject, proj, host, shaderVars>>

\* line 1919: RenderCapsuleDirectShadows
D_Capsule ==
    /\ pass = "Deferred" /\ deferred.pc = "capsule"
    /\ cmds' = Append(cmds, Command("RenderCapsuleDirectShadows", -1, -1,
                                    {"SceneDepthSurface"}, {ShadowMask}))
    /\ deferred' = [deferred EXCEPT !.pc = "heightfield"]
    /\ UNCHANGED <<pass, light, proxy, Views, ShadowsToProject, proj, host, shaderVars>>

\* lines 1926-1934: the heightfield shadowing of one view
HeightfieldCommands(ViewIndex) ==
    LET n == Len(ShadowsToProject)
    IN  Flatten([k \in 1..n |->
                    IF ShadowsToProject[k].bAllocated /\ ShadowsToProject[k].bWholeSceneShadow
                    THEN << Command("ComputeShadowMapShadowing", ViewIndex, k,
                                    {"ShadowDepthTexture"}, {"HeightfieldLighting"}) >>
                    ELSE <<>>], n)

\* lines 1921-1936: heightfield shadowing of every view
D_Heightfield ==
    /\ pass = "Deferred" /\ deferred.pc = "heightfield"
    /\ cmds' = cmds \o Flatten([v \in 1..Len(Views) |-> HeightfieldCommands(v - 1)], Len(Views))
    /\ deferred' = [deferred EXCEPT !.pc = "hair"]
    /\ UNCHANGED <<pass, light, proxy, Views, ShadowsToProject, proj, host, shaderVars>>

\* lines 1938-1944: the deep shadow mask of hair, return true
D_Return ==
    /\ pass = "Deferred" /\ deferred.pc = "hair"
    /\ cmds' = IF deferred.HairDatas
               THEN Append(cmds, Command("RenderHairStrandsShadowMask", -1, -1,
                                         {"HairVisibility"}, {ShadowMask}))
               ELSE cmds
    /\ deferred' = [deferred EXCEPT !.pc = "returned",
                                    !.result = ResultOfRenderShadowProjections(host.result)]
    /\ UNCHANGED <<pass, light, proxy, Views, ShadowsToProject, proj, host, shaderVars>>

\* ---------------------------------------------------------------- specification
\* ------------------------------------------------ RenderProjection
projRest == <<pass, light, proxy, Views, ShadowsToProject, host, deferred, cmds, shaderVars>>

\* uint32 LocalQuality = GetShadowQuality(); and the branches up to the loop
P_GetShadowQuality ==
    /\ pass = "Projection" /\ proj.pc = "begin"
    /\ LET c == proj.call
           LocalQuality == GetShadowQuality(proj.settings)
           Loop(Target) == [proj EXCEPT !.pc = "loop", !.LocalQuality = LocalQuality,
                                        !.Res = proj.ResolutionX, !.Reduce = 0,
                                        !.TargetResolution = Target]
           Skip == [proj EXCEPT !.pc = "select", !.LocalQuality = LocalQuality]
       IN  IF c.fn = "RenderProjection" THEN
               IF LocalQuality > 1
               THEN IF c.IsWholeSceneDirectionalShadow /\ c.ShadowSplitIndex > 0
                    THEN proj' = Skip
                    ELSE IF LocalQuality > 2 /\ ~c.bWholeSceneShadow
                    THEN proj' = Loop(TargetResolution(c.bPreShadow, proj.FactorQuarters))
                    ELSE proj' = Skip
               ELSE proj' = Skip
           ELSE
               \* the loop of the one-pass projection computes nothing that is
               \* used: a build may keep it or remove it
               IF LocalQuality > 1
               THEN proj' = Loop(512) \/ proj' = Skip
               ELSE proj' = Skip
    /\ UNCHANGED projRest

\* while (Res < TargetResolution) { Res *= 2; ++Reduce; }: one iteration; a
\* doubling that overflows wraps or traps, as the build has it
P_Double ==
    /\ pass = "Projection" /\ proj.pc = "loop"
    /\ proj.Res < proj.TargetResolution
    /\ \/ proj' = [proj EXCEPT !.Res = WrapDouble(proj.Res),
                               !.Reduce = IF proj.Reduce < MaxReduce THEN proj.Reduce + 1
                                          ELSE proj.Reduce]
       \/ /\ ~Fits32(proj.Res)
          /\ proj' = [proj EXCEPT !.pc = "trapped"]
    /\ UNCHANGED projRest

\* the exit of the loop and LocalQuality = FMath::Clamp((int32)LocalQuality - Reduce, 3, 5)
P_Reduce ==
    /\ pass = "Projection" /\ proj.pc = "loop"
    /\ ~(proj.Res < proj.TargetResolution)
    /\ proj' = [proj EXCEPT !.pc = "select",
                            !.LocalQuality = IF proj.call.fn = "RenderProjection"
                                             THEN Clamp(proj.LocalQuality - proj.Reduce, 3, 5)
                                             ELSE proj.LocalQuality]
    /\ UNCHANGED projRest

\* the call of GetShadowProjectionShaders, or the switch (LocalQuality) of the
\* one-pass projection: check(0) stops a build with checks and is nothing in
\* a build without them
P_SelectShaders ==
    /\ pass = "Projection" /\ proj.pc = "select"
    /\ LET Shaders == IF proj.call.fn = "RenderProjection"
                      THEN GetShadowProjectionShaders(proj.LocalQuality, proj.call)
                      ELSE SetPointLightShader(proj.LocalQuality, proj.call)
       IN  proj' = [proj EXCEPT !.Quality = proj.LocalQuality,
                                !.ShadowProjVS = Shaders.VS,
                                !.ShadowProjPS = Shaders.PS,
                                !.pc = IF Shaders.PS = <<"nullptr">>
                                          /\ proj.settings.Build = "Development"
                                       THEN "check_failed" ELSE "done"]
    /\ UNCHANGED projRest

Next ==
    \/ P_GetShadowQuality
    \/ P_Double
    \/ P_Reduce
    \/ P_SelectShaders
    \/ D_Begin
    \/ RSP_Gather
    \/ RSP_BeginShadowMask
    \/ RSP_Project
    \/ RSP_NextView
    \/ RSP_EndShadowMask
    \/ RSP_BeginSubPixel
    \/ RSP_DistanceField
    \/ RSP_Return
    \/ D_ScreenSpaceShadows
    \/ D_InjectTranslucentVolume
    \/ D_Capsule
    \/ D_Heightfield
    \/ D_Return
    \/ Host_Gather
    \/ Host_NextView
    \/ Host_NotAllocated
    \/ Host_Degenerate
    \/ Host_AddPass
    \/ Host_Return
    \/ \E t \in Pixels :
        \/ CS_Begin(t)
        \/ CS_Clear(t)
        \/ CS_Backface(t)
        \/ CS_Setup(t)
        \/ CS_TestClear(t)
        \/ CS_Step(t)
        \/ CS_Return(t)
        \/ PS_Begin(t)
        \/ PS_Step(t)
        \/ PS_Return(t)

Spec == Init /\ [][Next]_vars

\* the GPU keeps running invocations, and the render thread its function,
\* while one of them can take a step
FairSpec == Spec /\ WF_vars(Next)

\* ---------------------------------------------------------------- properties
Done(t) == pc[t] = "done"

\* the occlusion channel of an invocation's output
Occlusion(t) == IF pass = "CS" THEN RWShadowFactors[t][1] ELSE OutColor[t][1]

\* the pixel's own G-buffer entry
OwnGBuffer(t) == GetGBufferDataFromSceneTextures(scene, ScreenUV(t))

\* the pixel's normal faces away from the light: dot(N, LightDirection) <= 0
FacesAway(t) == Dot3(OwnGBuffer(t).WorldNormal, LightDirection) <= 0

\* the locals of the iteration before the current one
Previous(l) == [l EXCEPT !.sampleTime = @ - StepTime, !.i = @ - 1]

\* invocation t takes one iteration of the Main_CS march in this step
MarchStep(t) ==
    /\ pass = "CS" /\ pc[t] = "loop" /\ loc[t].i < NumSteps
    /\ fetches'[t] = fetches[t] + 1

\* C1: a pixel whose normal faces away from the light (dot(N, LightDirection) <= 0)
\* never samples the depth buffer along its ray and ends with occlusion 0, in
\* Main_CS and in Main, whatever the G-buffer holds.
C1_BackfaceShadowed ==
    \A t \in Pixels :
        FacesAway(t) => /\ fetches[t] = 0
                        /\ Done(t) => Occlusion(t) = F(0)

C1_Witness ==
    \E t \in Pixels :
        pass = "CS" /\ Done(t) /\ FacesAway(t) /\ RWShadowFactors[t][1] = F(0) /\ writes[t] > 0

\* C2: every Main_CS invocation runs at most NumSteps = 64 iterations (the
\* counter never exceeds 64, at most 64 samples are taken) and ends.
C2_Terminates ==
    /\ [](pass = "CS" => \A t \in Pixels : loc[t].i <= NumSteps /\ fetches[t] <= NumSteps)
    /\ <>(pass = "CS" => \A t \in Pixels : pc[t] \in {"done", "idle"})

C2_Witness ==
    \E t \in Pixels : pass = "CS" /\ Done(t) /\ loc[t].i = NumSteps /\ fetches[t] = NumSteps

\* C3: an iteration of Main_CS whose sample UV is not strictly inside (0,1) in
\* both axes stores nothing to the pixel's slot and goes on to the next
\* iteration, also when the depth comparison passes the hit test.
C3_OffScreenNeverHit ==
    [][\A t \in Pixels :
          (MarchStep(t) /\ ~OnScreen(SampleUVZ(loc[t])))
              => /\ pc'[t] = "loop"
                 /\ loc'[t].i = loc[t].i + 1
                 /\ RWShadowFactors'[t] = RWShadowFactors[t]]_vars

C3_Witness ==
    \E t \in Pixels :
        /\ pass = "CS" /\ pc[t] = "loop" /\ loc[t].i > 0
        /\ Hit(Previous(loc[t]))
        /\ ~OnScreen(SampleUVZ(Previous(loc[t])))
        /\ RWShadowFactors[t][1] = F(1)

\* C4: an iteration of Main_CS whose sampled device depth is within 1e-5 of the
\* ray's starting depth is never a hit, and an invocation all of whose 64
\* samples are such ends unshadowed.
C4_SelfIntersectionImmune ==
    [][\A t \in Pixels :
          /\ (MarchStep(t) /\ Abs(loc[t].startUVZ[3] - SampleDepth(loc[t])) < SelfOcclusionEps)
                => /\ pc'[t] = "loop"
                   /\ RWShadowFactors'[t] = RWShadowFactors[t]
          /\ (pass = "CS" /\ pc'[t] = "done" /\ fetches'[t] > 0 /\ loc'[t].allSelf)
                => RWShadowFactors'[t][1] = F(1)]_vars

C4_Witness ==
    \E t \in Pixels :
        /\ pass = "CS" /\ Done(t) /\ fetches[t] = NumSteps /\ loc[t].allSelf
        /\ RWShadowFactors[t][1] = F(1)

\* C5: a front-facing pixel none of whose 64 iterations is an on-screen hit
\* ends with the unshadowed result in its RWShadowFactors slot.
C5_NoHitUnshadowed ==
    \A t \in Pixels :
        (pass = "CS" /\ Done(t) /\ ~FacesAway(t) /\ loc[t].hits = 0)
            => RWShadowFactors[t] = <<F(1), OwnGBuffer(t).Depth>>

C5_Witness ==
    \E t \in Pixels :
        /\ pass = "CS" /\ Done(t) /\ ~FacesAway(t) /\ loc[t].hits = 0
        /\ fetches[t] = NumSteps /\ ~loc[t].allSelf
        /\ RWShadowFactors[t][1] = F(1)

\* C6: every sample Main_CS tests lies at a ray fraction sampleTime <= 1.
C6_SamplesWithinRay ==
    \A t \in Pixels :
        (pass = "CS" /\ pc[t] = "loop" /\ loc[t].i < NumSteps) => loc[t].sampleTime <= TimeOne

PS_WentOffScreen(t) ==
    pass = "PS" /\ ~FacesAway(t) /\ loc[t].i < PSNumSteps /\ OffScreen(PS_UV(loc[t].pos))

\* the march ended at an on-screen sample that passes the variant's hit test
EndedOnHit(t) ==
    IF pass = "CS" THEN loc[t].hits > 0
    ELSE loc[t].i < PSNumSteps /\ ~OffScreen(PS_UV(loc[t].pos)) /\ PS_Hit(loc[t].pos)

\* the march ran all its steps
Exhausted(t) == loc[t].i = (IF pass = "CS" THEN NumSteps ELSE PSNumSteps)

\* C8 as stated: shadowed is reached by backface rejection, a hit or the
\* off-screen case, unshadowed only by exhausting all steps without a hit.
C8_OffScreenShadowed ==
    \A t \in Pixels :
        Done(t) => /\ Occlusion(t) \in {F(0), F(1)}
                   /\ Occlusion(t) = F(1) => Exhausted(t)
                   /\ PS_WentOffScreen(t) => Occlusion(t) = F(0)

\* C8 amended: every invocation ends shadowed (0) or unshadowed (1); shadowed
\* by backface rejection or a hit at an on-screen sample; unshadowed by
\* exhausting all steps without such a hit or, in Main, at the first sample
\* that leaves the screen rectangle.
C8_TerminalStates ==
    \A t \in Pixels :
        Done(t) =>
            \/ /\ Occlusion(t) = F(0)
               /\ FacesAway(t) \/ EndedOnHit(t)
            \/ /\ Occlusion(t) = F(1)
               /\ ~FacesAway(t) /\ ~EndedOnHit(t)
               /\ Exhausted(t) \/ PS_WentOffScreen(t)

C8_Witness ==
    \E t \in Pixels : Done(t) /\ PS_WentOffScreen(t) /\ OutColor[t] = White

\* C9: an invocation of Main_CS stores to its RWShadowFactors slot exactly once.
C9_SingleStore ==
    \A t \in Pixels :
        /\ writes[t] <= 1
        /\ (pass = "CS" /\ Done(t)) => writes[t] = 1

\* C10: every store of a Main_CS invocation to RWShadowFactors or testFactors
\* goes to the invocation's own index DispatchThreadId.xy.
C10_OwnSlotOnly ==
    \A w \in lastWrites : w.at = w.by

\* ---------------------------------------------------------------- Main_CS as a function of its inputs
\* the locals of Main_CS at line 178 for pixel t and dither seed fr, computed from
\* the pixel coordinate, the view, the light and the G-buffer alone
LoopEntry(t, fr) ==
    LET GBuffer     == GetGBufferDataFromSceneTextures(scene, ScreenUV(t))
        P           == PositionTranslatedWorld(ScreenPosition(ScreenUV(t)), GBuffer.Depth)
        L           == << -light[1], -light[2], -light[3] >>
        len         == RayLength(GBuffer.Depth)
        startScreen == ClipToScreen(StartClip(P))
        endScreen   == ClipToScreen(EndClip(P, L, len))
    IN  [NoLocals EXCEPT
           !.SceneDepth = GBuffer.Depth, !.N = GBuffer.WorldNormal, !.P = P,
           !.Dither = InterleavedGradientNoise(t[1], t[2], fr),
           !.NdotL = Dot3(GBuffer.WorldNormal, L),
           !.startUVZ = StartUVZ(startScreen),
           !.stepUVZ = StepUVZ(startScreen, endScreen),
           !.sampleTime = FirstSampleTime(InterleavedGradientNoise(t[1], t[2], fr)),
           !.CompareTolerance = CompareToleranceOf(DepthScreenZ(P, len), startScreen[3])]

\* the locals with the sample taken at ray fraction tm
AtTime(l, tm) == [l EXCEPT !.sampleTime = tm]

\* the index of the first iteration from l.i on that is an on-screen hit, NumSteps if none
RECURSIVE FirstHit(_)
FirstHit(l) ==
    IF l.i >= NumSteps THEN NumSteps
    ELSE IF OnScreenHit(l) = 1 THEN l.i
    ELSE FirstHit([l EXCEPT !.sampleTime = @ + StepTime, !.i = @ + 1])

\* the value Main_CS leaves in the slot of pixel t for dither seed fr
MainCSOutput(t, fr) ==
    LET l == LoopEntry(t, fr)
    IN  IF l.NdotL <= 0 \/ FirstHit(l) < NumSteps
        THEN <<F(0), l.SceneDepth>>
        ELSE <<F(1), l.SceneDepth>>

\* shadowed (TRUE) or unshadowed (FALSE)
Shadowed(t, fr) == MainCSOutput(t, fr)[1] = F(0)

\* C11: the value a Main_CS invocation leaves in its RWShadowFactors slot is a
\* function of the pixel coordinate, the view, the light, the G-buffer and the
\* dither seed alone: every invocation with the same inputs ends with the same
\* value, whatever other invocations run with it and however they interleave.
C11_Idempotent ==
    \A t \in Pixels :
        (pass = "CS" /\ Done(t)) => RWShadowFactors[t] = MainCSOutput(t, frame)

\* both invocations of a dispatch ended, the one having stored into the other's
\* testFactors slot on its way
C11_Witness ==
    /\ pass = "CS"
    /\ \A t \in Pixels : Done(t) /\ RWShadowFactors[t] = MainCSOutput(t, frame)
    /\ <<246, 249>> \in DOMAIN testFactors
    /\ testFactors[<<246, 249>>] = <<F(1), F(0)>>

\* the dither seeds of View.StateFrameIndexMod8
Seeds == 0..7

\* the ray fractions in (0, 1] at which a sample of pixel t is an on-screen hit
HitTimes(t) ==
    LET l == LoopEntry(t, 0)
    IN  { tm \in 1..TimeOne : OnScreenHit(AtTime(l, tm)) = 1 }

\* the depth buffer holds no occluder along the ray of pixel t
NoOccluderAlongRay(t) == HitTimes(t) = {}

\* the depth buffer holds an occluder that is a hit at every ray fraction one
\* step around it
UnambiguousOccluder(t) ==
    LET H == HitTimes(t)
    IN  \E tm \in H : \A d \in (-StepTime)..StepTime : (tm + d) \in H

\* C12: when the ray of a front-facing pixel meets no occluder, or an occluder
\* that is a hit at every ray fraction one step around it, the invocation ends
\* with the same classification as it would for every other dither seed.
C12_SeedInvariant ==
    \A t \in Pixels :
        (pass = "CS" /\ Done(t) /\ (NoOccluderAlongRay(t) \/ UnambiguousOccluder(t)))
            => \A fr \in Seeds : Shadowed(t, fr) <=> (RWShadowFactors[t][1] = F(0))

\* C13: the march of Main_CS starts at the pixel's reconstructed position
\* offset along its normal by Thickness, as the march of Main does.
C13_StartOffsetAlongNormal ==
    \A t \in Pixels :
        (pass = "CS" /\ pc[t] = "loop")
            => loc[t].startUVZ =
                   StartUVZ(ClipToScreen(StartClip(OffsetAlongNormal(loc[t].P, loc[t].N))))

\* the vector from the shading point P to the light position, in WOne units
PointToLight(P) == [c \in 1..3 |-> FloorDiv(light[c] * WOne, One) - P[c]]

\* C14: the direction the ray is marched in is the negated light direction for
\* a directional descriptor (w = 0) and the vector from the shading point to
\* the light position for a local one (w = 1).
C14_DirectionByDescriptor ==
    \A t \in Pixels :
        (pass = "CS" /\ pc[t] \in {"facing", "testclear", "loop", "done"})
            => loc[t].NdotL =
                   IF light[4] = 0
                   THEN Dot3(loc[t].N, << -light[1], -light[2], -light[3] >>)
                   ELSE Dot3(loc[t].N, PointToLight(loc[t].P))

\* the host has left RenderScreenSpaceShadows
Returned == pass = "Host" /\ host.pc = "returned"

ZeroExtent(rect) == rect[1] = 0 \/ rect[2] = 0

PassesOfView(v) == { k \in 1..Len(host.passes) : host.passes[k].ViewIndex = v }

\* the light has a projected shadow the screen-space pass applies to
HasProjectedShadow ==
    \E k \in 1..Len(ShadowsToProject) :
        ShadowsToProject[k].bAllocated /\ ~ShadowsToProject[k].bRayTracedDistanceField

\* C17: for a light with projected shadows, the call of RenderScreenSpaceShadows
\* of a frame adds exactly one compute pass per view, whatever the number of
\* shadows in ShadowsToProject.
C17_OncePerLight ==
    (Returned /\ host.result = "true" /\ HasProjectedShadow)
        => \A v \in 0..(Len(Views) - 1) : Cardinality(PassesOfView(v)) = 1

\* invocation t takes one iteration of the march of Main in this step
PS_MarchStep(t) ==
    /\ pass = "PS" /\ pc[t] = "ps_loop" /\ loc[t].i < PSNumSteps
    /\ loc'[t] # loc[t]

\* line 60: the position the iteration moves to
PS_NextPos(t) == [c \in 1..4 |-> loc[t].pos[c] + RayStep(LightDirection)[c]]

\* the position projects to a UV with a component below 0 or above 1
ProjectsOutside(pos) ==
    LET uv == ClipToUV(Mul(pos, TranslatedWorldToClip))
    IN  uv[1] < 0 \/ uv[1] > One \/ uv[2] < 0 \/ uv[2] > One

\* C18: in Main, the first march step whose projected UV has a component below
\* 0 or above 1 ends the pixel with OutColor = (1,1,1,1) without a depth sample
\* at that step, and an ended pixel samples nothing and keeps its colour.
C18_OffScreenEndsPixel ==
    [][\A t \in Pixels :
          /\ (PS_MarchStep(t) /\ ProjectsOutside(PS_NextPos(t)))
                => /\ pc'[t] = "done"
                   /\ OutColor'[t] = <<F(1), F(1), F(1), F(1)>>
                   /\ fetches'[t] = fetches[t]
          /\ (pass = "PS" /\ pc[t] = "done")
                => /\ pc'[t] = "done"
                   /\ fetches'[t] = fetches[t]
                   /\ OutColor'[t] = OutColor[t]]_vars

\* a pixel of Main sampled the depth buffer on some steps, then left the
\* screen through its left edge and ended unshadowed
C18_Witness ==
    \E t \in Pixels :
        /\ pass = "PS" /\ Done(t) /\ loc[t].result = "offscreen"
        /\ fetches[t] > 0 /\ fetches[t] = loc[t].i
        /\ PS_UV(loc[t].pos)[1] < 0
        /\ OutColor[t] = <<F(1), F(1), F(1), F(1)>>

\* C19: the iteration of Main_CS whose sample is a hit at a UV strictly inside
\* (0,1)^2 stores (0, SceneDepth) and ends the invocation; it is the first such
\* iteration, and an invocation ended by a hit fetches no further sample and
\* its slot keeps the shadowed value.
C19_EarlyExitOnHit ==
    /\ [](\A t \in Pixels :
            (pass = "CS" /\ Done(t) /\ loc[t].result = "hit")
                => /\ loc[t].i = FirstHit(LoopEntry(t, frame))
                   /\ fetches[t] = loc[t].i + 1)
    /\ [][\A t \in Pixels :
             /\ (MarchStep(t) /\ OnScreenHit(loc[t]) = 1)
                   => /\ pc'[t] = "done"
                      /\ RWShadowFactors'[t] = <<F(0), OwnGBuffer(t).Depth>>
             /\ (pass = "CS" /\ pc[t] = "done" /\ loc[t].result = "hit")
                   => /\ pc'[t] = "done"
                      /\ fetches'[t] = fetches[t]
                      /\ RWShadowFactors'[t] = RWShadowFactors[t]]_vars

\* both invocations of a dispatch ended by a hit before the last step: the one
\* that ended first kept its shadowed value while the other marched on
C19_Witness ==
    /\ pass = "CS"
    /\ \A t \in Pixels :
          /\ Done(t) /\ loc[t].result = "hit"
          /\ loc[t].i < NumSteps - 1 /\ fetches[t] = loc[t].i + 1
          /\ RWShadowFactors[t] = <<F(0), OwnGBuffer(t).Depth>>

\* T = |depthScreen.z - startScreen.z| * (1 / 64) * 2.0 for pixel t, from its inputs
ToleranceOf(t) ==
    LET GBuffer == GetGBufferDataFromSceneTextures(scene, ScreenUV(t))
        P       == PositionTranslatedWorld(ScreenPosition(ScreenUV(t)), GBuffer.Depth)
        startZ  == ClipToScreen(Mul(P, TranslatedWorldToClip))[3]
        depthZ  == DepthScreenZ(P, RayLength(GBuffer.Depth))
    IN  FloorDiv(Abs(depthZ - startZ), 64) * 2

\* depthDiff of the sample of the current iteration
DepthDiff(l) == SampleUVZ(l)[3] - SampleDepth(l)

\* -2 * T < depthDiff < 0 and the sample is not a self-intersection
InBand(l, T) ==
    /\ -2 * T < DepthDiff(l) /\ DepthDiff(l) < 0
    /\ Abs(l.startUVZ[3] - SampleDepth(l)) >= SelfOcclusionEps

\* C20: during the march of Main_CS the tolerance is the constant
\* T = |depthScreen.z - startScreen.z| * (1/64) * 2.0; a sample is a hit exactly
\* when -2T < depthDiff < 0 and it is not a self-intersection; an on-screen
\* iteration ends the invocation exactly then; with a tolerance of 0 no sample
\* would be a hit.
C20_HitBand ==
    /\ [](\A t \in Pixels :
            (pass = "CS" /\ pc[t] = "loop" /\ loc[t].i < NumSteps)
                => /\ loc[t].CompareTolerance = ToleranceOf(t)
                   /\ Hit(loc[t]) <=> InBand(loc[t], ToleranceOf(t))
                   /\ ~Hit([loc[t] EXCEPT !.CompareTolerance = 0]))
    /\ [][\A t \in Pixels :
             (MarchStep(t) /\ OnScreen(SampleUVZ(loc[t])))
                 => (pc'[t] = "done" <=> InBand(loc[t], ToleranceOf(t)))]_vars

\* an invocation ended on a sample inside the band (T > 0), the sample of the
\* iteration before it lying outside the band
C20_Witness ==
    \E t \in Pixels :
        /\ pass = "CS" /\ Done(t) /\ loc[t].result = "hit"
        /\ loc[t].CompareTolerance > 0
        /\ -2 * loc[t].CompareTolerance < DepthDiff(loc[t]) /\ DepthDiff(loc[t]) < 0
        /\ loc[t].i > 0
        /\ DepthDiff(Previous(loc[t])) >= 0 \/ DepthDiff(Previous(loc[t])) <= -2 * loc[t].CompareTolerance

\* (i + 1 + Dither - 0.5) * step, in TimeOne units times 2 * DitherOne
SampleTimeOf(i, Dither) == (2 * DitherOne * (i + 1) + 2 * Dither - DitherOne) * StepTime

\* C21: the Dither of a Main_CS invocation lies in [0, 1); the sample of
\* iteration i is taken at ray fraction (i + 1 + Dither - 0.5) * step with
\* step = 1/64, that is within half a step of (i + 1) * step; an iteration that
\* is not a hit moves the sample forward by exactly one step.
C21_DitheredSampleSequence ==
    /\ [](\A t \in Pixels :
            (pass = "CS" /\ pc[t] = "loop" /\ loc[t].i < NumSteps)
                => /\ 0 <= loc[t].Dither /\ loc[t].Dither < DitherOne
                   /\ StepTime * NumSteps = TimeOne
                   /\ 2 * DitherOne * loc[t].sampleTime = SampleTimeOf(loc[t].i, loc[t].Dither)
                   /\ 2 * (loc[t].sampleTime - (loc[t].i + 1) * StepTime) >= -StepTime
                   /\ 2 * (loc[t].sampleTime - (loc[t].i + 1) * StepTime) < StepTime)
    /\ [][\A t \in Pixels :
             (MarchStep(t) /\ pc'[t] = "loop")
                 => /\ loc'[t].sampleTime = loc[t].sampleTime + StepTime
                    /\ loc'[t].sampleTime > loc[t].sampleTime
                    /\ loc'[t].i = loc[t].i + 1]_vars

\* an invocation with a dither below one half (a backward shift) is in its
\* last iteration, the sample a quarter of a step before the ray's end
C21_Witness ==
    \E t \in Pixels :
        /\ pass = "CS" /\ pc[t] = "loop" /\ loc[t].i = NumSteps - 1
        /\ 2 * loc[t].Dither < DitherOne
        /\ loc[t].sampleTime < TimeOne


\* n = ceil(w / 8)
IsCeilOfEighth(n, w) == THREADGROUP_SIZE * n >= w /\ THREADGROUP_SIZE * (n - 1) < w

\* the pixels of an output surface of the extent rect
OutputPixels(rect) == (0..(rect[1] - 1)) \X (0..(rect[2] - 1))

\* C22: a pass added for a view rectangle of W x H pixels (W, H >= 1) has
\* ceil(W/8) x ceil(H/8) x 1 groups of 8 x 8 threads; no two of its invocations
\* have the same DispatchThreadId.xy, and every pixel of the W x H output
\* surface is the DispatchThreadId.xy of one of them.
C22_OneInvocationPerPixel ==
    pass = "Host" =>
        \A k \in 1..Len(host.passes) :
            LET p   == host.passes[k]
                W   == Views[p.ViewIndex + 1][1]
                H   == Views[p.ViewIndex + 1][2]
                ids == DispatchedIds(p)
            IN  /\ W >= 1 /\ H >= 1
                /\ p.TextureSize = <<W, H>>
                /\ IsCeilOfEighth(p.GroupCount[1], W)
                /\ IsCeilOfEighth(p.GroupCount[2], H)
                /\ p.GroupCount[3] = 1
                /\ Cardinality(Invocations(p)) = p.GroupCount[1] * p.GroupCount[2] * 64
                /\ Cardinality(ids) = Cardinality(Invocations(p))
                /\ \A px \in OutputPixels(<<W, H>>) : px \in ids

\* a pass for a 9 x 17 view: 2 x 3 groups, 384 invocations, the last pixel
\* (8, 16) being that of thread (0, 0) of group (1, 2)
C22_Witness ==
    /\ pass = "Host" /\ Len(host.passes) > 0
    /\ host.passes[1].TextureSize = <<9, 17>>
    /\ Cardinality(DispatchedIds(host.passes[1])) = 384
    /\ DispatchThreadIdOf(<<1, 2>>, <<0, 0>>) = <<8, 16>>
    /\ <<8, 16>> \in DispatchedIds(host.passes[1])


\* C26: every invocation of a pass RenderScreenSpaceShadows added has its
\* DispatchThreadId.xy inside the W x H extent of the output texture created
\* for the pass, so that the index it reads the G-buffer for and stores to
\* RWShadowFactors at lies inside the extent.
C26_InvocationsInsideExtent ==
    pass = "Host" =>
        \A k \in 1..Len(host.passes) :
            \A id \in DispatchedIds(host.passes[k]) :
                id \in OutputPixels(host.passes[k].TextureSize)


\* view rectangles inside the buffer: (Min.xy, (Width, Height)); the first is the explored view
ViewRectsInBuffer ==
    { <<ViewRectMin, <<BufferSize, BufferSize>> >>,
      << <<128, 64>>, <<384, 448>> >>,
      << <<256, 0>>, <<9, 17>> >>,
      << <<503, 495>>, <<9, 17>> >> }

\* output pixels of a W x H extent that are looked at: the corners, their
\* neighbours and the centre, and the invocations followed when they are inside
PixelSamples(size) ==
    { q \in ({0, 1, size[1] \div 2, size[1] - 2, size[1] - 1}
                \X {0, 1, size[2] \div 2, size[2] - 2, size[2] - 1}) \cup Pixels :
        q[1] < size[1] /\ q[2] < size[2] }

\* the buffer texel a UV falls into (no clamping), and the UV of its centre times 2 * BufferSize
TexelAt(uv) == << FloorDiv(uv[1] * BufferSize, One), FloorDiv(uv[2] * BufferSize, One) >>

\* the coordinate u is the centre (x + 0.5) / BufferSize of texel x, to the
\* last digit of the fixed point
AtCentre(u, x) ==
    LET centre == (2 * x + 1) * One
    IN  centre - 2 * BufferSize < 2 * BufferSize * u /\ 2 * BufferSize * u <= centre

\* C23: the invocation with DispatchThreadId.xy = p reads normal and depth at
\* the centre of buffer texel p + ViewRectMin; distinct pixels read distinct
\* texels; for a view rectangle inside the buffer and p inside its extent the
\* texel lies inside the buffer.
C23_PixelToTexel ==
    /\ (pass = "CS" /\ \E t \in Pixels : pc[t] = "clear") =>
          \A vr \in ViewRectsInBuffer :
              \A q \in PixelSamples(vr[2]) :
                  LET uv == ScreenUVOf(q, vr[1])
                  IN  /\ AtCentre(uv[1], q[1] + vr[1][1])
                      /\ AtCentre(uv[2], q[2] + vr[1][2])
                      /\ TexelAt(uv) = << q[1] + vr[1][1], q[2] + vr[1][2] >>
                      /\ TexelAt(uv) \in (0..(BufferSize - 1)) \X (0..(BufferSize - 1))
                      /\ \A r \in PixelSamples(vr[2]) :
                            r # q => TexelAt(ScreenUVOf(r, vr[1])) # TexelAt(uv)
    /\ \A t \in Pixels :
          (pass = "CS" /\ pc[t] \notin {"idle", "start"})
              => /\ loc[t].SceneDepth =
                        DepthAt(scene, t[1] + ViewRectMin[1], t[2] + ViewRectMin[2])
                 /\ loc[t].N = scene.normal

\* the invocation of pixel (246, 249) has just read its own texel, which lies
\* on the far surface that starts at column 240 (pixel (233, 250) is left of it)
C23_Witness ==
    /\ pass = "CS" /\ pc[<<246, 249>>] = "clear"
    /\ scene = Scene(300, 541, 240, 512, Upwards)
    /\ TexelAt(ScreenUV(<<246, 249>>)) = <<246, 249>>
    /\ loc[<<246, 249>>].SceneDepth = 541 * WOne
    /\ loc[<<246, 249>>].N = Upwards


\* the (ViewIndex, ShadowIndex) pairs a pass can be dispatched for: the view has
\* a positive extent and the shadow of NormalShadows is allocated
DispatchablePairs ==
    { vs \in (0..(Len(Views) - 1)) \X (0..(Len(host.NormalShadows) - 1)) :
        ~ZeroExtent(Views[vs[1] + 1]) /\ host.NormalShadows[vs[2] + 1].bAllocated }

\* C28: when RenderScreenSpaceShadows has returned, every pair of a view of
\* positive extent and an allocated shadow that is not a distance-field shadow
\* has its pass, also when another view of the light has a zero extent, and
\* the result is false only when there is no such pair.
C28_ZeroViewAffectsOnlyItself ==
    Returned =>
        /\ \A vs \in DispatchablePairs :
              \E k \in 1..Len(host.passes) :
                  host.passes[k].ViewIndex = vs[1] /\ host.passes[k].ShadowIndex = vs[2]
        /\ host.result = "false" => DispatchablePairs = {}


\* the elements of a sequence
Range(seq) == { seq[i] : i \in DOMAIN seq }

\* a command that projects a normal shadow, a command that projects a distance-field shadow
IsNormalProjection(c) == c.op \in {"RenderProjection", "RenderOnePassPointLightProjection"}

IsDistanceFieldProjection(c) == c.op = "RenderRayTracedDistanceFieldProjection"

\* FSceneRenderer::RenderShadowProjections has sorted the shadows of the light
Gathered == pass \in {"Deferred", "Host"} /\ deferred.pc \notin {"none", "begin", "rsp_gather"}

\* the render targets the normal shadows of the call are projected to
ProjectionTargets ==
    IF deferred.caller = "Mobile" THEN {"SceneColor"}
    ELSE IF deferred.ScreenShadowMaskSubPixelTexture /\ deferred.HairDatas
    THEN {ShadowMask, ShadowMaskSubPixel}
    ELSE {ShadowMask}

\* (target, view, shadow) of every projection of a normal shadow the call has to render
NormalProjectionsDue ==
    { tvk \in ProjectionTargets \X (0..(Len(Views) - 1)) \X (1..Len(ShadowsToProject)) :
        LET sh == ShadowsToProject[tvk[3]]
        IN  /\ ~sh.bRayTracedDistanceField /\ sh.bAllocated
            /\ 256 * sh.FadeAlphas[tvk[2] + 1] > FadeOne }

\* (target, view, shadow) of the projections of normal shadows among the first n commands
NormalProjectionsIn(n) ==
    { << CHOOSE tx \in cmds[i].writes : TRUE, cmds[i].ViewIndex, cmds[i].ShadowIndex >> :
        i \in { i \in 1..n : IsNormalProjection(cmds[i]) } }

\* C24: RenderShadowProjections puts every shadow of ShadowsToProject in exactly
\* one of its two lists; when a distance-field shadow is projected, every
\* projection of a normal shadow, of every view and of the sub-pixel pass, has
\* been rendered and none follows; a normal shadow is projected for a view only
\* when it is allocated and its FadeAlphas[view] exceeds 1/256.
C24_DistanceFieldLast ==
    Gathered =>
        /\ \A k \in 1..Len(ShadowsToProject) :
              /\ (k \in Range(deferred.DistanceFieldShadows))
                    # (k \in Range(deferred.NormalShadows))
              /\ Cardinality({ i \in DOMAIN deferred.DistanceFieldShadows :
                                  deferred.DistanceFieldShadows[i] = k })
                 + Cardinality({ i \in DOMAIN deferred.NormalShadows :
                                    deferred.NormalShadows[i] = k }) = 1
        /\ \A j \in DOMAIN cmds :
              IsDistanceFieldProjection(cmds[j])
                  => /\ \A i \in DOMAIN cmds : IsNormalProjection(cmds[i]) => i < j
                     /\ NormalProjectionsIn(j) = NormalProjectionsDue
        /\ \A i \in DOMAIN cmds :
              IsNormalProjection(cmds[i])
                  => /\ ShadowsToProject[cmds[i].ShadowIndex].bAllocated
                     /\ 256 * ShadowsToProject[cmds[i].ShadowIndex].FadeAlphas[cmds[i].ViewIndex + 1]
                           > FadeOne

\* the call for a light with a distance-field shadow and a cascade, two views
\* and hair has returned: the cascade was projected to the shadow mask and to
\* the sub-pixel mask for view 0 only (its fade is exactly 1/256 in view 1),
\* and the distance-field shadow after that
C24_Witness ==
    /\ pass = "Deferred" /\ deferred.pc = "returned"
    /\ ShadowsToProject = <<DistanceFieldShadow, CascadeShadow>>
    /\ Len(Views) = 2
    /\ NormalProjectionsIn(Len(cmds)) = { <<ShadowMask, 0, 2>>, <<ShadowMaskSubPixel, 0, 2>> }
    /\ \E j \in DOMAIN cmds : IsDistanceFieldProjection(cmds[j]) /\ cmds[j].ViewIndex = 1


\* the positions in the command list at which RenderScreenSpaceShadows was called
ScreenSpaceCalls == { j \in DOMAIN cmds : cmds[j].op = "PushEvent ScreenSpaceShadows" }

\* the commands of the passes that follow the screen-space pass in the deferred renderer
IsLaterPass(c) ==
    c.op \in {"InjectTranslucentVolumeLighting", "RenderCapsuleDirectShadows",
              "ComputeShadowMapShadowing", "RenderHairStrandsShadowMask"}

\* the number of commands of operation op among the first n commands
CountOf(op, n) == Cardinality({ i \in 1..n : cmds[i].op = op })

\* C25: FDeferredShadingSceneRenderer::RenderShadowProjections calls
\* RenderScreenSpaceShadows exactly once; at the call every standard shadow
\* projection of the light has been issued and every render pass begun has
\* been ended; the commands of the translucent-volume injection, the capsule
\* shadows, the heightfield shadowing and the hair mask come after the call and
\* after the dispatches of the screen-space pass; the function returns true
\* whether RenderScreenSpaceShadows returned true or false.
C25_ScreenSpacePassOnceInOrder ==
    (pass \in {"Deferred", "Host"} /\ deferred.caller = "Deferred") =>
        /\ Cardinality(ScreenSpaceCalls) =
              (IF deferred.pc \in {"in_sss", "capsule", "heightfield", "hair", "returned"}
               THEN 1 ELSE 0)
        /\ pass = "Host" <=> deferred.pc = "in_sss"
        /\ pass = "Host" => ~deferred.bInsideRenderPass
        /\ \A j \in ScreenSpaceCalls :
              /\ CountOf("BeginRenderPass", j) = CountOf("EndRenderPass", j)
              /\ NormalProjectionsIn(j) = NormalProjectionsDue
              /\ \A i \in DOMAIN cmds :
                    /\ (IsNormalProjection(cmds[i]) \/ IsDistanceFieldProjection(cmds[i])
                          \/ cmds[i].op \in {"BeginRenderPass", "EndRenderPass"}) => i < j
                    /\ (IsLaterPass(cmds[i]) \/ cmds[i].op = "ScreenSpaceShadowing") => i > j
                    /\ IsLaterPass(cmds[i]) =>
                          \A d \in DOMAIN cmds : cmds[d].op = "ScreenSpaceShadowing" => d < i
        /\ deferred.pc = "returned" =>
              /\ deferred.result = "true"
              /\ host.pc = "returned" /\ host.result \in {"true", "false"}
              /\ \E i \in DOMAIN cmds : cmds[i].op = "RenderCapsuleDirectShadows"

\* the deferred renderer has returned true for a light whose screen-space pass
\* was dispatched for the first view and returned false at the second view of
\* zero width, its shadows having been projected before and its hair mask after
C25_Witness ==
    /\ pass = "Deferred" /\ deferred.caller = "Deferred" /\ deferred.pc = "returned"
    /\ deferred.result = "true" /\ host.result = "false"
    /\ Views = << <<8, 8>>, <<0, 8>> >>
    /\ \E j \in ScreenSpaceCalls :
          /\ \E i \in 1..(j - 1) : IsNormalProjection(cmds[i])
          /\ \E i \in 1..(j - 1) : IsDistanceFieldProjection(cmds[i])
          /\ cmds[j + 2].op = "ScreenSpaceShadowing"
          /\ cmds[Len(cmds)].op = "RenderHairStrandsShadowMask"


\* the commands of the list that write the texture tex, in the order of the list
WritesTo(tex) == SelectSeq(cmds, LAMBDA c : tex \in c.writes)

\* the textures created by the graph builder inside RenderScreenSpaceShadows
CreatedTextures == {"ScreenSpaceShadowTexture", "test"}

\* C27: no step of RenderScreenSpaceShadows adds a command that writes
\* ScreenShadowMaskTexture; every dispatch of the compute pass writes exactly
\* ScreenSpaceShadowTexture and the test texture and has the shadow mask
\* neither among the textures it reads nor among those it writes; no command
\* of the frame reads either of the two created textures.
C27_ShadowMaskUntouched ==
    /\ [](/\ \A i \in DOMAIN cmds :
                /\ cmds[i].reads \cap CreatedTextures = {}
                /\ cmds[i].op = "ScreenSpaceShadowing" =>
                      /\ cmds[i].writes = CreatedTextures
                      /\ ShadowMask \notin cmds[i].reads \cup cmds[i].writes
                /\ cmds[i].writes \cap CreatedTextures # {} =>
                      cmds[i].op = "ScreenSpaceShadowing")
    /\ [][pass = "Host" =>
            /\ WritesTo(ShadowMask)' = WritesTo(ShadowMask)
            /\ WritesTo(ShadowMaskSubPixel)' = WritesTo(ShadowMaskSubPixel)]_vars

\* the deferred renderer has returned after a screen-space pass that was
\* dispatched, the shadow mask having been written by a projection before
\* the pass and by the capsule shadows after it
C27_Witness ==
    /\ pass = "Deferred" /\ deferred.pc = "returned" /\ host.result = "true"
    /\ \E i, d, k \in DOMAIN cmds :
          /\ i < d /\ d < k
          /\ IsNormalProjection(cmds[i]) /\ ShadowMask \in cmds[i].writes
          /\ cmds[d].op = "ScreenSpaceShadowing"
          /\ cmds[k].op = "RenderCapsuleDirectShadows" /\ ShadowMask \in cmds[k].writes


\* C29: whenever RenderProjection has called GetShadowProjectionShaders, the
\* Quality it passed lies in 1..5, no check(0) was reached, and the vertex and
\* the pixel shader are both set; a quality that went through the
\* low-resolution reduction lies in 3..5.
C29_QualityInRange ==
    (pass = "Projection" /\ proj.call.fn = "RenderProjection") =>
        /\ proj.pc # "check_failed"
        /\ proj.pc = "done" =>
              /\ proj.Quality \in 1..5
              /\ proj.ShadowProjVS # "nullptr"
              /\ proj.ShadowProjPS # <<"nullptr">>
              /\ proj.Reduce > 0 => proj.Quality \in 3..5


\* C30: the resolution loop of RenderProjection and of
\* RenderOnePassPointLightProjection ends for every value of ResolutionX and
\* every target resolution: no iteration below the target leaves Res as it
\* was (the condition reads nothing but Res, so such an iteration repeats
\* for ever).
C30_LoopsTerminate ==
    (pass = "Projection" /\ proj.pc = "loop" /\ proj.Res < proj.TargetResolution) =>
        WrapDouble(proj.Res) # proj.Res

====
